---------------------------- MODULE Spec2Model ----------------------------
(***************************************************************************)
(* Model of the Smart Office Assistant's conversation core:                *)
(*   - the contact directory and its participant resolution                *)
(*     (src/address_book.py),                                              *)
(*   - the meeting ledger (src/storage.py),                                *)
(*   - the calendar collaborator (src/calendar_service.py),                *)
(*   - the dialogue state machine and the commands on existing meetings    *)
(*     (src/meeting_manager.py).                                           *)
(* Text is modelled as sequences of one-character strings, so that         *)
(* lower(), strip(), split() and the substring test are computed.          *)
(***************************************************************************)
EXTENDS Integers, Sequences, FiniteSets, TLC

(***************************************************************************)
(* Text helpers (Python str methods used by the directory).                *)
(***************************************************************************)

\* str.lower() on one character (the characters the model's names use).
LowerCh(c) ==
    CASE c = "S" -> "s" [] c = "A" -> "a" [] c = "L" -> "l" [] c = "R" -> "r"
      [] c = "P" -> "p" [] c = "Z" -> "z" [] c = "T" -> "t" [] c = "O" -> "o"
      [] OTHER -> c

\* str.lower()
Lower(s) == [i \in 1..Len(s) |-> LowerCh(s[i])]

RECURSIVE LStrip(_)
LStrip(s) == IF s # <<>> /\ Head(s) = " " THEN LStrip(Tail(s)) ELSE s

RECURSIVE RStrip(_)
RStrip(s) ==
    IF s # <<>> /\ s[Len(s)] = " " THEN RStrip(SubSeq(s, 1, Len(s) - 1)) ELSE s

\* str.strip()
Strip(s) == RStrip(LStrip(s))

RECURSIVE TakeWord(_)
TakeWord(s) ==
    IF s = <<>> \/ Head(s) = " " THEN <<>> ELSE <<Head(s)>> \o TakeWord(Tail(s))

\* str.split()[0]: the first whitespace-delimited token (names are non-blank).
FirstToken(s) == TakeWord(LStrip(s))

\* Python's `sub in s` on strings.
Contains(sub, s) ==
    \E i \in 0..(Len(s) - Len(sub)) : SubSeq(s, i + 1, i + Len(sub)) = sub

Range(seq) == {seq[i] : i \in 1..Len(seq)}

(***************************************************************************)
(* Contact directory: src/address_book.py                                  *)
(***************************************************************************)

NoContact == [id |-> "none", name |-> <<>>, email |-> "", department |-> <<>>]

\* AddressBook.find_by_name: substring match, case-insensitive.
find_by_name(ab, name) ==
    LET name_lower == Lower(Strip(name))
    IN  SelectSeq(ab, LAMBDA c : Contains(name_lower, Lower(c.name)))

\* AddressBook.find_by_exact_name: the FIRST contact whose full name equals
\* the name (case-insensitive), or None.
find_by_exact_name(ab, name) ==
    LET name_lower == Lower(Strip(name))
        hits == SelectSeq(ab, LAMBDA c : Lower(c.name) = name_lower)
    IN  IF hits = <<>> THEN NoContact ELSE hits[1]

\* What a call returns that left by an IndexError.
IndexError == <<[NoContact EXCEPT !.id = "IndexError"]>>

\* AddressBook.find_by_first_name: split()[0] of a name without a word
\* raises IndexError.
find_by_first_name(ab, first_name) ==
    LET fn_lower == Lower(Strip(first_name))
    IN  IF \E i \in 1..Len(ab) : Strip(ab[i].name) = <<>> THEN IndexError
        ELSE SelectSeq(ab, LAMBDA c : FirstToken(Lower(c.name)) = fn_lower)

\* AddressBook.find_by_department
find_by_department(ab, department) ==
    LET dept_lower == Lower(Strip(department))
    IN  SelectSeq(ab, LAMBDA c : Lower(c.department) = dept_lower)

\* AddressBook.get_department_members
get_department_members(ab, department) ==
    find_by_department(ab, department)

\* The department filter used twice by resolve_participant.
FilterDept(matches, department) ==
    LET dept_lower == Lower(Strip(department))
    IN  SelectSeq(matches, LAMBDA c : Lower(c.department) = dept_lower)

\* AddressBook.resolve_participant
resolve_participant(ab, name, department) ==
    LET exact == find_by_exact_name(ab, name)
        first_name_matches == find_by_first_name(ab, name)
        partial == find_by_name(ab, name)
    IN  IF exact # NoContact THEN <<exact>>
        ELSE IF first_name_matches = IndexError THEN IndexError
        ELSE IF department # <<>> /\ FilterDept(first_name_matches, department) # <<>>
             THEN FilterDept(first_name_matches, department)
        ELSE IF Len(first_name_matches) = 1 THEN first_name_matches
        ELSE IF department # <<>> /\ FilterDept(partial, department) # <<>>
             THEN FilterDept(partial, department)
        ELSE IF partial # <<>> THEN partial ELSE first_name_matches

\* AddressBook.delete_contact: the directory without the contact of that id.
delete_contact(ab, contact_id) == SelectSeq(ab, LAMBDA c : c.id # contact_id)

\* AddressBook.get_emails_for_contacts
get_emails_for_contacts(cs) ==
    LET withEmail == SelectSeq(cs, LAMBDA c : c.email # "")
    IN  [i \in 1..Len(withEmail) |-> withEmail[i].email]

(***************************************************************************)
(* Participant resolution of the dialogue: src/meeting_manager.py          *)
(***************************************************************************)

\* dict[key] = value on a dict modelled as a function.
DictPut(d, key, value) ==
    [k \in (DOMAIN d) \cup {key} |-> IF k = key THEN value ELSE d[k]]

EmptyDict == [k \in {} |-> 0]

\* "Remove duplicates" loop of _resolve_all_participants: keeps the first
\* occurrence of every contact id.
RECURSIVE UniqueById(_, _)
UniqueById(resolved, seen_ids) ==
    IF resolved = <<>> THEN <<>>
    ELSE IF Head(resolved).id \in seen_ids
         THEN UniqueById(Tail(resolved), seen_ids)
         ELSE <<Head(resolved)>>
              \o UniqueById(Tail(resolved), seen_ids \cup {Head(resolved).id})

\* AsksWhichOne that asks only from three matches on.
AsksFromThree(matches, department) == Len(matches) > 2 /\ department = <<>>

\* A multi-match without department asks the user (meeting_manager.py:389).
AsksWhichOne(matches, department) == Len(matches) > 1 /\ department = <<>>

\* One iteration of the `for p in participants_raw` loop; acc is the record
\* of the loop's locals (resolved, needs_disambiguation, disambiguation_needed).
\* The department-group branch of the loop, given the department's members.
AddGroup(acc, members) ==
    [acc EXCEPT !.resolved = @ \o members,
                !.warned = @ \/ (members = <<>>)]

\* The name branch of the loop, given what resolve_participant returned.
AddMatches(acc, p, matches) ==
    IF Len(matches) = 1
    THEN [acc EXCEPT !.resolved = Append(@, matches[1])]
    ELSE IF Len(matches) = 0
    THEN [acc EXCEPT !.needs_disambiguation = TRUE,
                     !.disambiguation_needed =
                         DictPut(@, p.name, [original |-> p, matches |-> <<>>])]
    ELSE IF AsksWhichOne(matches, p.department)
    THEN [acc EXCEPT !.needs_disambiguation = TRUE,
                     !.disambiguation_needed =
                         DictPut(@, p.name, [original |-> p, matches |-> matches])]
    ELSE [acc EXCEPT !.resolved = @ \o matches]

ResolveOne(ab, acc, p) ==
    IF p.is_department_group /\ p.department # <<>>
    THEN AddGroup(acc, get_department_members(ab, p.department))
    ELSE AddMatches(acc, p, resolve_participant(ab, p.name, p.department))

RECURSIVE ResolveLoop(_, _, _)
ResolveLoop(ab, acc, participants_raw) ==
    IF participants_raw = <<>> THEN acc
    ELSE ResolveLoop(ab, ResolveOne(ab, acc, Head(participants_raw)),
                     Tail(participants_raw))

\* MeetingManager._resolve_all_participants.  `warned` stands for a
\* non-empty disambiguation_message produced by an empty department group.
resolve_all_participants(ab, participants_raw) ==
    [ResolveLoop(ab,
                 [resolved |-> <<>>, needs_disambiguation |-> FALSE,
                  disambiguation_needed |-> [k \in {} |-> 0], warned |-> FALSE],
                 participants_raw)
       EXCEPT !.resolved = UniqueById(@, {})]

(***************************************************************************)
(* Dates, times and the texts of user messages.                            *)
(* A date "YYYY-MM-DD" is the record of its numbers, a time "HH:MM" the     *)
(* record of its numbers; the empty string is NoDate / NoTime.             *)
(***************************************************************************)

NoDate == [y |-> 0, mo |-> 0, d |-> 0]
NoTime == [h |-> -1, m |-> -1]

DaysInMonth(y, mo) ==
    IF mo \in {4, 6, 9, 11} THEN 30
    ELSE IF mo = 2
         THEN (IF (y % 4 = 0 /\ y % 100 # 0) \/ y % 400 = 0 THEN 29 ELSE 28)
         ELSE 31

\* datetime.strptime(date_str, "%Y-%m-%d") succeeds.
DateParses(date) ==
    /\ date.y \in 1..9999
    /\ date.mo \in 1..12
    /\ date.d \in 1..DaysInMonth(date.y, date.mo)

\* datetime.strptime(time_str, "%H:%M") succeeds.
TimeParses(time) == time.h \in 0..23 /\ time.m \in 0..59

\* datetime.strptime(f"{date_str} {time_str}", "%Y-%m-%d %H:%M") succeeds.
DateTimeParses(date, time) == DateParses(date) /\ TimeParses(time)

DEFAULT_MEETING_DURATION_MINUTES == 45

\* config.SMTP_EMAIL: the organizer's address, non-empty by default.
SMTP_EMAIL == "organizer@office"

\* What the three time patterns and the duration patterns of
\* _try_direct_parse find in a message: a regex match is the record of its
\* groups, and ampm = "" (h = -1, minutes = -1, hours = -1) is "no match".
NoAmPm == [h |-> -1, m |-> -1, ampm |-> ""]

\* The patterns of _parse_flexible_datetime, of
\* _extract_add_target_from_message and of _handle_add_attendees add: the
\* date matches in the order of the three date patterns (dates), the match
\* of the "H:MM am/pm" pattern whose am/pm is optional (clock), the match of
\* the "H am/pm" pattern with word boundaries (hour_ampm), the names after
\* "add" (add_target) and the name after "meeting with" (meeting_with).
PlainText(words) ==
    [words |-> words, ampm_time |-> NoAmPm, ampm_simple |-> NoAmPm,
     h24_time |-> NoTime, minutes |-> -1, hours |-> -1, has_default |-> FALSE,
     dates |-> <<>>, clock |-> NoAmPm, hour_ampm |-> NoAmPm,
     add_target |-> <<>>, meeting_with |-> <<>>]

Texts ==
    { PlainText("yes"),
      PlainText("no"),
      PlainText("make it later"),
      [PlainText("3pm") EXCEPT !.ampm_simple = [h |-> 3, m |-> -1, ampm |-> "pm"],
                               !.hour_ampm = [h |-> 3, m |-> -1, ampm |-> "pm"]],
      [PlainText("1:75pm") EXCEPT !.ampm_time = [h |-> 1, m |-> 75, ampm |-> "pm"],
                                  !.ampm_simple = [h |-> 75, m |-> -1, ampm |-> "pm"],
                                  !.h24_time = [h |-> 1, m |-> 75],
                                  !.clock = [h |-> 1, m |-> 75, ampm |-> "pm"],
                                  !.hour_ampm = [h |-> 75, m |-> -1, ampm |-> "pm"]],
      [PlainText("30 minutes") EXCEPT !.minutes = 30],
      [PlainText("1 hour") EXCEPT !.hours = 1],
      [PlainText("default") EXCEPT !.has_default = TRUE] }

\* MeetingManager._parse_ampm_time / _parse_ampm_simple: the hour on the
\* 24-hour clock.
Hour24(h, ampm) ==
    IF ampm = "pm" /\ h # 12 THEN h + 12
    ELSE IF ampm = "am" /\ h = 12 THEN 0 ELSE h

parse_ampm_time(match) == [h |-> Hour24(match.h, match.ampm), m |-> match.m]

parse_ampm_simple(match) == [h |-> Hour24(match.h, match.ampm), m |-> 0]

\* MeetingManager._parse_24h_time: "" when out of range.
parse_24h_time(match) ==
    IF match.h \in 0..23 /\ match.m \in 0..59 THEN match ELSE NoTime

(***************************************************************************)
(* nlu_engine.classify_confirmation: the fixed word lists, then the         *)
(* language model's one-word answer (llm), anything else is "modification". *)
(***************************************************************************)
ConfirmWords ==
    {"yes", "y", "yeah", "yep", "sure", "go ahead", "confirm", "ok", "okay",
     "schedule it", "do it", "please", "yes please"}

CancelWords ==
    {"no", "n", "nope", "cancel", "nevermind", "never mind", "forget it", "stop"}

classify_confirmation(text, llm) ==
    IF text.words \in ConfirmWords THEN "confirmed"
    ELSE IF text.words \in CancelWords THEN "cancelled"
    ELSE IF llm \in {"confirmed", "cancelled", "modification"} THEN llm
    ELSE "modification"

(***************************************************************************)
(* The data the model runs on.                                             *)
(***************************************************************************)

Sam     == <<"S", "a", "m">>
SamLee  == <<"S", "a", "m", " ", "L", "e", "e">>
SamRoy  == <<"S", "a", "m", " ", "R", "o", "y">>
AnnPoe  == <<"A", "n", "n", " ", "P", "o", "e">>
Ann     == <<"A", "n", "n">>
Zed     == <<"Z", "e", "d">>
Sales   == <<"S", "a", "l", "e", "s">>
Tech    == <<"T", "e", "c", "h">>
TechLow == <<"t", "e", "c", "h">>
Ops     == <<"O", "p", "s">>

Contact(id, name, email, department) ==
    [id |-> id, name |-> name, email |-> email, department |-> department]

ContactPool ==
    { Contact("c1", Sam, "sam.s@office", Sales),
      Contact("c2", Sam, "sam.t@office", Tech),
      Contact("c3", SamLee, "lee@office", Sales),
      Contact("c4", SamRoy, "roy@office", Tech),
      Contact("c5", AnnPoe, "", Tech),
      Contact("c6", SamLee, "lee.t@office", Tech) }

PoolContact(id) == CHOOSE c \in ContactPool : c.id = id

\* The directories of the dialogue runs: two one-word "Sam"s, and two
\* contacts whose first name is "Sam"; Ann is unique in both.
DialogueDirectories ==
    { <<PoolContact("c1"), PoolContact("c2"), PoolContact("c5")>>,
      <<PoolContact("c3"), PoolContact("c4"), PoolContact("c5")>> }

\* A participant spec as the parser returns it.
PSpec(name, department, is_group) ==
    [name |-> name, department |-> department, is_department_group |-> is_group]

ParticipantSpecs ==
    { PSpec(Sam, <<>>, FALSE), PSpec(Sam, TechLow, FALSE), PSpec(SamRoy, <<>>, FALSE),
      PSpec(Ann, <<>>, FALSE), PSpec(Zed, <<>>, FALSE),
      PSpec(Tech, Tech, TRUE), PSpec(Ops, Ops, TRUE) }

\* The participant lists of a schedule command, and those of a reply.
CommandParticipants ==
    { <<>>, <<PSpec(Sam, <<>>, FALSE)>>, <<PSpec(Ann, <<>>, FALSE)>>,
      <<PSpec(Zed, <<>>, FALSE)>>, <<PSpec(Tech, Tech, TRUE)>>,
      <<PSpec(Ops, Ops, TRUE)>> }

ReplyParticipants ==
    { <<>>, <<PSpec(Sam, TechLow, FALSE)>>, <<PSpec(SamRoy, <<>>, FALSE)>>,
      <<PSpec(Ann, <<>>, FALSE)>> }

Tuesday == [y |-> 2026, mo |-> 2, d |-> 17]
Wednesday == [y |-> 2026, mo |-> 2, d |-> 18]
BadDate == [y |-> 2026, mo |-> 2, d |-> 30]
Dates   == {NoDate, Tuesday, BadDate}

TwoPm   == [h |-> 14, m |-> 0]
BadTime == [h |-> 25, m |-> 0]
Times   == {NoTime, TwoPm, BadTime}

Durations == {0, 30}

\* A title is its text and, for a generated one, the names it lists.
NoTitle == [text |-> "", with |-> <<>>]
Titles  == {NoTitle, [text |-> "Sync", with |-> <<>>]}

\* Meeting ids, thread ids and event ids are a kind and a fresh number;
\* NoId is None / "".
NoId == <<"", 0>>
FollowupRefs == {NoId, <<"ref", 0>>}

\* What calendar.find_first_available_slot answers: None or a slot start.
Slots == {NoTime, [h |-> 9, m |-> 0]}

LlmAnswers == {"confirmed", "cancelled", "modification", "not sure"}

SchedulingIntents == {"schedule_meeting", "followup_meeting"}

\* MeetingManager._NON_SCHEDULING_INTENTS
NON_SCHEDULING_INTENTS ==
    {"list_meetings", "search_mom", "upload_recording", "manage_contacts",
     "cancel_meeting", "reschedule_meeting", "add_attendees_to_meeting",
     "remove_attendees_from_meeting"}

Intents == SchedulingIntents \cup NON_SCHEDULING_INTENTS \cup {"general_chat"}

NoDetails ==
    [title |-> NoTitle, date |-> NoDate, time |-> NoTime, duration_minutes |-> 0,
     description |-> "", participants |-> <<>>, use_first_available |-> FALSE,
     is_followup |-> FALSE, followup_reference |-> NoId,
     meeting_ref_participants |-> <<>>]

Details(title, date, time, duration_minutes, participants, use_first_available,
        followup_reference) ==
    [title |-> title, date |-> date, time |-> time,
     duration_minutes |-> duration_minutes, description |-> "",
     participants |-> participants, use_first_available |-> use_first_available,
     is_followup |-> (followup_reference # NoId),
     followup_reference |-> followup_reference,
     meeting_ref_participants |-> <<>>]

\* The parser's meeting_details for a schedule / follow-up command: every
\* participant list with a complete, an empty and a "first available" set of
\* fields; every combination of fields with the one resolvable participant;
\* and a titled and a follow-up command.
CommandDetails ==
    { Details(NoTitle, Tuesday, TwoPm, 30, ps, FALSE, NoId) : ps \in CommandParticipants }
    \cup { Details(NoTitle, NoDate, NoTime, 0, ps, FALSE, NoId) : ps \in CommandParticipants }
    \cup { Details(NoTitle, Tuesday, NoTime, 30, ps, TRUE, NoId) : ps \in CommandParticipants }
    \cup { Details(NoTitle, d, tm, du, <<PSpec(Ann, <<>>, FALSE)>>, u, NoId) :
             d \in Dates, tm \in Times, du \in Durations, u \in BOOLEAN }
    \cup { Details([text |-> "Sync", with |-> <<>>], Tuesday, TwoPm, 30,
                   <<PSpec(Ann, <<>>, FALSE)>>, FALSE, f) : f \in FollowupRefs }

\* A reply inside a flow: the message text and the parser's meeting_details
\* for it.  Either the parser extracts fields from a text without patterns,
\* or it extracts nothing and the text has (or not) a pattern, or both give
\* a time / a duration.
Reply(text, details) == [text |-> text, details |-> details]

ReplyFields(date, time, duration_minutes, participants) ==
    [NoDetails EXCEPT !.date = date, !.time = time,
                      !.duration_minutes = duration_minutes,
                      !.participants = participants]

Replies ==
    { Reply(PlainText("make it later"), ReplyFields(d, tm, du, <<>>)) :
        d \in {NoDate, Tuesday}, tm \in {NoTime, TwoPm}, du \in Durations }
    \cup { Reply(PlainText("make it later"), ReplyFields(NoDate, NoTime, 0, ps)) :
             ps \in ReplyParticipants }
    \cup { Reply(text, NoDetails) : text \in Texts }
    \cup { Reply(text, ReplyFields(NoDate, TwoPm, 30, <<>>)) :
             text \in {t \in Texts : t.words \in {"3pm", "default"}} }
    \cup { Reply(PlainText("make it later"), ReplyFields(Wednesday, NoTime, 0, <<>>)) }

(***************************************************************************)
(* State.                                                                  *)
(***************************************************************************)
VARIABLES
    contacts,                \* AddressBook.contacts
    state,                   \* MeetingManager.state
    pending_meeting,         \* MeetingManager.pending_meeting (the draft)
    resolved_participants,   \* MeetingManager.resolved_participants
    missing_fields,          \* MeetingManager.missing_fields
    disambiguation_context,  \* MeetingManager.disambiguation_context
    history_len,             \* len(MeetingManager.conversation_history)
    meetings,                \* MeetingStore.data["meetings"]
    threads,                 \* MeetingStore.data["threads"]
    disk,                    \* the ledger file as last written by save()
    uuid_n,                  \* how many ids / timestamps were generated
    calendar_events,         \* the events the calendar collaborator holds
    result,                  \* what the last process_message returned
    trace,                   \* the collaborator calls of the last turn
    turn,                    \* the inputs of the last turn
    draft_effects,           \* create-event / add-meeting calls of the draft
    book_disk,               \* the address book file as last written
    edits,                   \* how many times the directory was edited
    call,                    \* the last directory call (resolution runs)
    user_email,              \* MeetingStore.user_email
    is_admin,                \* MeetingStore.is_admin
    store_call               \* the last call of the store (ledger runs)

vars ==
    <<contacts, state, pending_meeting, resolved_participants, missing_fields,
      disambiguation_context, history_len, meetings, threads, disk, uuid_n,
      calendar_events, result, trace, turn, draft_effects, book_disk, edits,
      call, user_email, is_admin, store_call>>

\* ConversationState
IDLE                    == "idle"
COLLECTING_INFO         == "collecting_info"
AWAITING_CONFIRMATION   == "awaiting_confirmation"
AWAITING_SLOT_CHOICE    == "awaiting_slot_choice"
AWAITING_DISAMBIGUATION == "awaiting_disambiguation"

ConversationState ==
    {IDLE, COLLECTING_INFO, AWAITING_CONFIRMATION, AWAITING_SLOT_CHOICE,
     AWAITING_DISAMBIGUATION}

Result(action, message) == [action |-> action, message |-> message]

\* No result yet: the turn is running.
NoResult == Result("", "")

\* The manager, the store and the calendar as one record w ("the world"),
\* which the handlers below transform.
Self ==
    [state |-> state, pending_meeting |-> pending_meeting,
     resolved_participants |-> resolved_participants,
     missing_fields |-> missing_fields,
     disambiguation_context |-> disambiguation_context,
     meetings |-> meetings, threads |-> threads, disk |-> disk,
     uuid_n |-> uuid_n, calendar_events |-> calendar_events,
     result |-> NoResult, trace |-> <<>>, draft_effects |-> draft_effects,
     user_email |-> user_email, is_admin |-> is_admin, ret |-> [id |-> NoId],
     smtp_ok |-> TRUE]

\* dict.get(key, default)
Get(d, key, default) == IF key \in DOMAIN d THEN d[key] ELSE default

\* An exception leaves process_message instead of a result.
Raised == Result("raised", "save failed")

Called(w, name, arg) == [w EXCEPT !.trace = Append(@, [call |-> name, arg |-> arg])]

\* The calls of that name in a trace.
CallsIn(tr, name) == {i \in 1..Len(tr) : tr[i].call = name}

\* reset that keeps the resolved participants.
ResetKeepingParticipants(w) ==
    [w EXCEPT !.state = IDLE,
              !.pending_meeting = EmptyDict,
              !.missing_fields = <<>>,
              !.disambiguation_context = EmptyDict]

\* reset that keeps the disambiguation context.
ResetKeepingContext(w) ==
    [w EXCEPT !.state = IDLE,
              !.pending_meeting = EmptyDict,
              !.resolved_participants = <<>>,
              !.missing_fields = <<>>]

\* MeetingManager.reset
reset(w) ==
    [w EXCEPT !.state = IDLE,
              !.pending_meeting = EmptyDict,
              !.resolved_participants = <<>>,
              !.missing_fields = <<>>,
              !.disambiguation_context = EmptyDict]

\* MeetingManager._compute_missing_fields
compute_missing_fields(w) ==
    LET pm == w.pending_meeting
    IN  (IF w.resolved_participants = <<>> /\ Get(pm, "participants_raw", <<>>) = <<>>
         THEN <<"participants">> ELSE <<>>)
        \o (IF Get(pm, "date", NoDate) = NoDate THEN <<"date">> ELSE <<>>)
        \o (IF Get(pm, "time", NoTime) = NoTime /\ ~Get(pm, "use_first_available", FALSE)
            THEN <<"time">> ELSE <<>>)
        \o (IF Get(pm, "duration_minutes", 0) = 0 THEN <<"duration">> ELSE <<>>)

\* The time the patterns of _try_direct_parse give: the first pattern that
\* matches and whose parser returns a non-empty string.
DirectTime(text) ==
    IF text.ampm_time.ampm # "" THEN parse_ampm_time(text.ampm_time)
    ELSE IF text.ampm_simple.ampm # "" THEN parse_ampm_simple(text.ampm_simple)
    ELSE IF text.h24_time # NoTime THEN parse_24h_time(text.h24_time)
    ELSE NoTime

\* The duration the patterns of _try_direct_parse give (0: none).
DirectDuration(text) ==
    LET found == IF text.minutes # -1 THEN text.minutes
                 ELSE IF text.hours # -1 THEN text.hours * 60 ELSE 0
    IN  IF text.has_default /\ found = 0
        THEN DEFAULT_MEETING_DURATION_MINUTES ELSE found

\* MeetingManager._try_direct_parse
try_direct_parse(w, text) ==
    LET pm == w.pending_meeting
        mf == Range(w.missing_fields)
        pm1 == IF "time" \in mf /\ Get(pm, "time", NoTime) = NoTime
                  /\ DirectTime(text) # NoTime
               THEN [pm EXCEPT !.time = DirectTime(text)] ELSE pm
        pm2 == IF "duration" \in mf /\ Get(pm1, "duration_minutes", 0) = 0
                  /\ DirectDuration(text) # 0
               THEN [pm1 EXCEPT !.duration_minutes = DirectDuration(text)] ELSE pm1
    IN  [w EXCEPT !.pending_meeting = pm2]

Min(a, b) == IF a < b THEN a ELSE b

Names(cs) == [i \in 1..Len(cs) |-> cs[i].name]

\* MeetingManager._present_confirmation
present_confirmation(w) ==
    LET pm == w.pending_meeting
        pm1 == IF Get(pm, "duration_minutes", 0) = 0
               THEN [pm EXCEPT !.duration_minutes = DEFAULT_MEETING_DURATION_MINUTES]
               ELSE pm
        first3 == SubSeq(w.resolved_participants, 1,
                         Min(3, Len(w.resolved_participants)))
        pm2 == IF Get(pm1, "title", NoTitle) = NoTitle
               THEN [pm1 EXCEPT !.title = [text |-> "Meeting with", with |-> Names(first3)]]
               ELSE pm1
    IN  [w EXCEPT !.state = AWAITING_CONFIRMATION,
                  !.pending_meeting = pm2,
                  !.result = Result("awaiting_confirmation", "confirmation")]

\* MeetingManager._find_and_offer_slot; slot is the calendar's answer.
find_and_offer_slot(w, slot) ==
    IF ~DateParses(Get(w.pending_meeting, "date", NoDate))
    THEN [w EXCEPT !.state = COLLECTING_INFO,
                   !.missing_fields = <<"date">>,
                   !.result = Result("awaiting_input", "could not parse the date")]
    ELSE IF slot # NoTime
    THEN present_confirmation(
             Called([w EXCEPT !.pending_meeting.time = slot],
                    "find_first_available_slot", slot))
    ELSE [Called(w, "find_first_available_slot", slot)
             EXCEPT !.state = COLLECTING_INFO,
                    !.missing_fields = <<"time">>,
                    !.result = Result("awaiting_input", "no slot")]

\* The tail shared by _start_scheduling and _handle_info_collection: ask for
\* what is missing, else find a slot, else confirm.
UseFirstAvailable(w) ==
    /\ Get(w.pending_meeting, "use_first_available", FALSE)
    /\ Get(w.pending_meeting, "date", NoDate) # NoDate

AskMissing(w) ==
    [w EXCEPT !.result = Result("awaiting_input", "followup question")]

(***************************************************************************)
(* Meeting ledger: src/storage.py                                          *)
(***************************************************************************)

\* The requester the dialogue's store was opened for.
STORE_USER == "alice@office"

\* MeetingStore._get_thread_for_meeting: the thread that lists the id, or NoId.
get_thread_for_meeting(w, meeting_id) ==
    LET holding == {t \in DOMAIN w.threads : meeting_id \in Range(w.threads[t])}
    IN  IF holding = {} THEN NoId ELSE CHOOSE t \in holding : TRUE

\* A save that swallows the failure of the write.
SaveSilently(w, save_ok) ==
    IF save_ok
    THEN [w EXCEPT !.disk = [meetings |-> w.meetings, threads |-> w.threads]]
    ELSE w

\* MeetingStore.save: the whole data is written to the file, or the write
\* raises (save_ok = FALSE) and the file keeps what it held.
save(w, save_ok) ==
    IF save_ok
    THEN [w EXCEPT !.disk = [meetings |-> w.meetings, threads |-> w.threads]]
    ELSE [w EXCEPT !.result = Raised]

\* None where a record is expected.
NoMeeting == [id |-> NoId]

\* return value: a call that raised returns nothing.
Return(w, value) == IF w.result = Raised THEN w ELSE [w EXCEPT !.ret = value]

\* MeetingStore.add_meeting.  Ids come from uuid4, created_at from the
\* clock: both are the next number of uuid_n.
add_meeting(w, meeting_info, parent_meeting_id, save_ok) ==
    LET n == w.uuid_n + 1
        meeting_id == <<"mtg", n>>
        found == IF parent_meeting_id # NoId
                 THEN get_thread_for_meeting(w, parent_meeting_id) ELSE NoId
        thread_id == IF found # NoId THEN found ELSE <<"thread", n>>
        record ==
            [id |-> meeting_id, thread_id |-> thread_id,
             parent_meeting_id |-> parent_meeting_id,
             user_email |-> w.user_email,
             title |-> meeting_info.title,
             date |-> meeting_info.date,
             time |-> meeting_info.time,
             duration_minutes |-> meeting_info.duration_minutes,
             participants |-> meeting_info.participants,
             participant_emails |-> meeting_info.participant_emails,
             description |-> meeting_info.description,
             calendar_event_id |-> meeting_info.calendar_event_id,
             mom_id |-> NoId, status |-> "scheduled", created_at |-> n]
        w1 == [w EXCEPT
                 !.uuid_n = n,
                 !.meetings = Append(@, record),
                 !.threads = DictPut(@, thread_id,
                                     Append(Get(@, thread_id, <<>>), meeting_id))]
    IN  Return(save(Called(w1, "add_meeting", meeting_id), save_ok), record)

\* MeetingStore.get_recent_meetings is not needed by the dialogue's state;
\* _list_meetings only reads.

(***************************************************************************)
(* Calendar collaborator: src/calendar_service.py                          *)
(***************************************************************************)

\* create_event: cal_ok is the collaborator's outcome.  On success the
\* event exists in the calendar under a fresh id; on failure the result
\* carries no event id.
create_event(w, cal_ok, title, date, time, duration_minutes, attendee_emails) ==
    LET n == w.uuid_n + 1
        event == [id |-> <<"evt", n>>, title |-> title, date |-> date,
                  time |-> time, duration_minutes |-> duration_minutes,
                  attendees |-> attendee_emails]
        w1 == Called(w, "create_event", attendee_emails)
    IN  IF cal_ok
        THEN [w1 EXCEPT !.uuid_n = n, !.calendar_events = Append(@, event)]
        ELSE w1

\* The event id of the create_event just performed ("" on failure).
CreatedEventId(w, cal_ok) ==
    IF cal_ok THEN w.calendar_events[Len(w.calendar_events)].id ELSE NoId

(***************************************************************************)
(* Commit: MeetingManager._execute_scheduling                              *)
(***************************************************************************)

\* A notification send: its result says whether the mail server took the
\* message (w.smtp_ok), and the caller does not read it.
Sent(w, name, to) ==
    [w EXCEPT !.trace = Append(@, [call |-> name, arg |-> to, success |-> w.smtp_ok])]

\* A commit that takes the record back when a notification fails.
NotifyOrTakeBack(w, cal_ok, attendee_emails) ==
    LET w1 == Sent(w, "send_meeting_invite_to_participants", attendee_emails)
    IN  IF attendee_emails # <<>> /\ ~w.smtp_ok
        THEN [w1 EXCEPT !.meetings = SubSeq(@, 1, Len(@) - 1)]
        ELSE w1

\* The notification sends of a commit: the organizer only after a calendar
\* success, the participants whenever there are attendee emails.
Notify(w, cal_ok, attendee_emails) ==
    LET w1 == IF cal_ok /\ SMTP_EMAIL # ""
              THEN Sent(w, "send_meeting_invite_notification", <<SMTP_EMAIL>>)
              ELSE w
    IN  IF attendee_emails # <<>>
        THEN Sent(w1, "send_meeting_invite_to_participants", attendee_emails)
        ELSE w1

CountCreate(w) == [w EXCEPT !.draft_effects.create = @ + 1]

CountAdd(w) == [w EXCEPT !.draft_effects.add = @ + 1]

\* Committed that reports full success whatever the calendar answered.
CommittedAlwaysSuccess(w, cal_ok) ==
    [reset(w) EXCEPT
        !.draft_effects.committed = TRUE,
        !.result = Result("scheduled", "scheduled successfully")]

\* The end of _execute_scheduling: reset and report.
Committed(w, cal_ok) ==
    [reset(w) EXCEPT
        !.draft_effects.committed = TRUE,
        !.result = Result("scheduled",
                          IF cal_ok THEN "scheduled successfully"
                          ELSE "recorded locally, calendar invite could not be sent")]

\* The abort of _execute_scheduling when date and time do not parse.
AbortCommit(w) ==
    [reset(w) EXCEPT !.result = Result("error", "error parsing the date/time")]

\* The strptime of the draft's date and time that opens _execute_scheduling.
Strptime(w) ==
    Called(w, "strptime", <<Get(w.pending_meeting, "date", NoDate),
                            Get(w.pending_meeting, "time", NoTime)>>)

\* The "Create calendar event" step of _execute_scheduling.
CreateDraftEvent(w, cal_ok) ==
    CountCreate(
        create_event(w, cal_ok, w.pending_meeting["title"],
                     Get(w.pending_meeting, "date", NoDate),
                     Get(w.pending_meeting, "time", NoTime),
                     Get(w.pending_meeting, "duration_minutes",
                         DEFAULT_MEETING_DURATION_MINUTES),
                     get_emails_for_contacts(w.resolved_participants)))

\* The "Store meeting record" step of _execute_scheduling.
StoreDraftRecord(w, cal_ok, save_ok) ==
    LET pm == w.pending_meeting
        info == [title |-> pm["title"],
                 date |-> Get(pm, "date", NoDate),
                 time |-> Get(pm, "time", NoTime),
                 duration_minutes |-> Get(pm, "duration_minutes",
                                          DEFAULT_MEETING_DURATION_MINUTES),
                 participants |-> Names(w.resolved_participants),
                 participant_emails |-> get_emails_for_contacts(w.resolved_participants),
                 description |-> Get(pm, "description", ""),
                 calendar_event_id |-> CreatedEventId(w, cal_ok)]
        parent == IF Get(pm, "is_followup", FALSE)
                  THEN Get(pm, "followup_reference", NoId) ELSE NoId
    IN  CountAdd(add_meeting(w, info, parent, save_ok))

\* The rest of _execute_scheduling after add_meeting: nothing when the save
\* raised, else the notifications, the reset and the report.
FinishCommit(w, cal_ok) ==
    IF w.result = Raised THEN w
    ELSE Committed(Notify(w, cal_ok, get_emails_for_contacts(w.resolved_participants)),
                   cal_ok)

\* _execute_scheduling without the abort on a date/time that does not parse.
ExecuteWithoutParse(w, cal_ok, save_ok) ==
    FinishCommit(
        StoreDraftRecord(CreateDraftEvent(Strptime(w), cal_ok), cal_ok, save_ok),
        cal_ok)

\* MeetingManager._execute_scheduling
execute_scheduling(w, cal_ok, save_ok) ==
    IF ~DateTimeParses(Get(w.pending_meeting, "date", NoDate),
                       Get(w.pending_meeting, "time", NoTime))
    THEN AbortCommit(Strptime(w))
    ELSE FinishCommit(
             StoreDraftRecord(CreateDraftEvent(Strptime(w), cal_ok), cal_ok, save_ok),
             cal_ok)

(***************************************************************************)
(* Dialogue handlers: src/meeting_manager.py                               *)
(* `in` is the record of a turn's inputs: the message text, the parser's   *)
(* answer for the message (quick) and for the handler's context message    *)
(* (parsed), the language model's classification (llm), and the outcomes   *)
(* of the collaborators (slot, cal_ok, save_ok).                           *)
(***************************************************************************)

NoEffects == [create |-> 0, add |-> 0, committed |-> FALSE]

\* The draft _start_scheduling builds from the parsed command.
NewDraft(meeting) ==
    [title |-> meeting.title, date |-> meeting.date, time |-> meeting.time,
     duration_minutes |-> meeting.duration_minutes,
     description |-> meeting.description,
     participants_raw |-> meeting.participants,
     use_first_available |-> meeting.use_first_available,
     is_followup |-> meeting.is_followup,
     followup_reference |-> meeting.followup_reference]

\* _start_scheduling, from "Step 2" on: needs w.resolved_participants set.
Proceed(w, slot) ==
    IF w.missing_fields # <<>>
    THEN AskMissing([w EXCEPT !.state = COLLECTING_INFO])
    ELSE IF UseFirstAvailable(w) THEN find_and_offer_slot(w, slot)
    ELSE present_confirmation(w)

AfterResolution(w, slot) ==
    Proceed([w EXCEPT !.missing_fields = compute_missing_fields(w)], slot)

\* MeetingManager._start_scheduling
\* _start_scheduling, from "Step 1" on: the draft is set, resolution is what
\* _resolve_all_participants returned for it.
StartResolved(w, resolution, slot) ==
    IF resolution.needs_disambiguation
    THEN [w EXCEPT !.state = AWAITING_DISAMBIGUATION,
                   !.disambiguation_context = resolution.disambiguation_needed,
                   !.result = Result("awaiting_input", "disambiguation")]
    ELSE AfterResolution([w EXCEPT !.resolved_participants = resolution.resolved],
                         slot)

\* MeetingManager._start_scheduling
start_scheduling(w, parsed, slot) ==
    StartResolved([w EXCEPT !.pending_meeting = NewDraft(parsed.meeting_details),
                            !.draft_effects = NoEffects],
                  resolve_all_participants(contacts, parsed.meeting_details.participants),
                  slot)

\* MeetingManager._handle_info_collection
handle_info_collection(w, in) ==
    LET new_details == in.parsed.meeting_details
        mf == Range(w.missing_fields)
        pm0 == w.pending_meeting
        pm1 == IF new_details.date # NoDate /\ "date" \in mf
               THEN [pm0 EXCEPT !.date = new_details.date] ELSE pm0
        pm2 == IF new_details.time # NoTime /\ "time" \in mf
               THEN [pm1 EXCEPT !.time = new_details.time] ELSE pm1
        pm3 == IF new_details.duration_minutes # 0 /\ "duration" \in mf
               THEN [pm2 EXCEPT !.duration_minutes = new_details.duration_minutes]
               ELSE pm2
        newNames == new_details.participants # <<>> /\ "participants" \in mf
        pm4 == IF newNames
               THEN [pm3 EXCEPT !.participants_raw = new_details.participants]
               ELSE pm3
        rp == IF newNames
              THEN resolve_all_participants(contacts, new_details.participants).resolved
              ELSE w.resolved_participants
        pm5 == IF new_details.title # NoTitle /\ "title" \in mf
               THEN [pm4 EXCEPT !.title = new_details.title] ELSE pm4
        w1 == try_direct_parse([w EXCEPT !.pending_meeting = pm5,
                                         !.resolved_participants = rp], in.text)
        w2 == [w1 EXCEPT !.missing_fields = compute_missing_fields(w1)]
    IN  IF w2.missing_fields # <<>> THEN AskMissing(w2)
        ELSE IF UseFirstAvailable(w2) THEN find_and_offer_slot(w2, in.slot)
        ELSE present_confirmation(w2)

\* _handle_confirmation that commits unless the reply cancels.
ConfirmUnlessCancelled(w, in) ==
    IF classify_confirmation(in.text, in.llm) = "cancelled"
    THEN [reset(w) EXCEPT !.result = Result("cancelled", "scheduling cancelled")]
    ELSE execute_scheduling(w, in.cal_ok, in.save_ok)

\* MeetingManager._handle_confirmation
handle_confirmation(w, in) ==
    LET decision == classify_confirmation(in.text, in.llm)
    IN  IF decision = "confirmed" THEN execute_scheduling(w, in.cal_ok, in.save_ok)
        ELSE IF decision = "cancelled"
        THEN [reset(w) EXCEPT !.result = Result("cancelled", "scheduling cancelled")]
        ELSE handle_info_collection([w EXCEPT !.state = COLLECTING_INFO], in)

\* MeetingManager._handle_slot_choice
handle_slot_choice(w, in) ==
    LET new_details == in.parsed.meeting_details
        w1 == IF new_details.time # NoTime
              THEN [w EXCEPT !.pending_meeting.time = new_details.time]
              ELSE try_direct_parse(w, in.text)
    IN  IF Get(w1.pending_meeting, "time", NoTime) # NoTime
        THEN present_confirmation([w1 EXCEPT !.state = IDLE])
        ELSE [w1 EXCEPT !.result = Result("awaiting_input", "did not catch the time")]

\* MeetingManager._handle_disambiguation
handle_disambiguation(w, in) ==
    LET new_participants == in.parsed.meeting_details.participants
        w1 == [w EXCEPT !.pending_meeting.participants_raw = @ \o new_participants]
        resolution == resolve_all_participants(contacts,
                                               w1.pending_meeting["participants_raw"])
        w2 == [w1 EXCEPT !.resolved_participants = resolution.resolved,
                         !.state = COLLECTING_INFO]
        w3 == [w2 EXCEPT !.missing_fields = compute_missing_fields(w2)]
    IN  IF resolution.needs_disambiguation
        THEN [w1 EXCEPT !.disambiguation_context = resolution.disambiguation_needed,
                        !.result = Result("awaiting_input", "disambiguation")]
        ELSE IF w3.missing_fields # <<>> THEN AskMissing(w3)
        ELSE present_confirmation(w3)

\* MeetingManager._list_meetings
list_meetings(w) ==
    [w EXCEPT !.result =
        Result("list", IF w.meetings = <<>> THEN "no meetings scheduled yet"
                       ELSE "recent meetings")]

(***************************************************************************)
(* Commands on an existing meeting: _handle_reschedule,                    *)
(* _handle_add_attendees, _handle_remove_attendees.                        *)
(* The calendar's answers are inputs of the turn: auth is                  *)
(* is_authenticated(), upd_ok the outcome of update_event /                *)
(* update_event_attendees, cal_ok that of create_event; save_ok and        *)
(* save_ok2 are the outcomes of the turn's first and second ledger save.   *)
(***************************************************************************)

\* MeetingStore._filter_by_user
filter_by_user(w, meetings_list) ==
    IF w.is_admin \/ w.user_email = "" THEN meetings_list
    ELSE SelectSeq(meetings_list, LAMBDA m : m.user_email = w.user_email)

\* MeetingStore.meetings
store_meetings(w) == filter_by_user(w, w.meetings)

\* The requester's meetings whatever their status.
AnyStatus(w) == store_meetings(w)

\* scheduled = [m for m in self.meeting_store.meetings if status == "scheduled"]
Scheduled(w) == SelectSeq(store_meetings(w), LAMBDA m : m.status = "scheduled")

\* A store that lets every requester modify every record.
AnyoneCanModify(w, m) == TRUE

\* MeetingStore._can_modify_meeting
can_modify_meeting(w, m) == w.is_admin \/ m.user_email = w.user_email

\* dict.update(kwargs) on a record.
Update(m, kwargs) ==
    [f \in DOMAIN m |-> IF f \in DOMAIN kwargs THEN kwargs[f] ELSE m[f]]

\* The position of the first record with that id (0: none).
IndexOfId(records, id) ==
    IF \E i \in 1..Len(records) : records[i].id = id
    THEN CHOOSE i \in 1..Len(records) :
           /\ records[i].id = id
           /\ \A j \in 1..(i - 1) : records[j].id # id
    ELSE 0

\* MeetingStore.update_meeting: the record is changed in memory, then saved.
update_meeting(w, meeting_id, kwargs, save_ok) ==
    IF IndexOfId(w.meetings, meeting_id) = 0 THEN Return(w, NoMeeting)
    ELSE IF ~can_modify_meeting(w, w.meetings[IndexOfId(w.meetings, meeting_id)])
    THEN Return(w, NoMeeting)
    ELSE Return(save(Called([w EXCEPT !.meetings[IndexOfId(w.meetings, meeting_id)] =
                                          Update(@, kwargs)],
                            "update_meeting", meeting_id),
                     save_ok),
                Update(w.meetings[IndexOfId(w.meetings, meeting_id)], kwargs))

\* cancel_meeting that refuses a meeting that is cancelled already.
CancelOnce(w, meeting_id, save_ok) ==
    IF \E i \in 1..Len(w.meetings) :
         w.meetings[i].id = meeting_id /\ w.meetings[i].status = "cancelled"
    THEN Return(w, NoMeeting)
    ELSE update_meeting(w, meeting_id, [status |-> "cancelled"], save_ok)

\* MeetingStore.cancel_meeting
cancel_meeting(w, meeting_id, save_ok) ==
    update_meeting(w, meeting_id, [status |-> "cancelled"], save_ok)

\* MeetingStore.get_meeting: the first of the requester's records with the id.
get_meeting(w, meeting_id) ==
    IF IndexOfId(store_meetings(w), meeting_id) = 0 THEN NoMeeting
    ELSE store_meetings(w)[IndexOfId(store_meetings(w), meeting_id)]

\* mids.remove(meeting_id): without the first occurrence.
RemoveFirst(mids, meeting_id) ==
    IF IndexOfId([i \in 1..Len(mids) |-> [id |-> mids[i]]], meeting_id) = 0 THEN mids
    ELSE LET k == IndexOfId([i \in 1..Len(mids) |-> [id |-> mids[i]]], meeting_id)
         IN  SubSeq(mids, 1, k - 1) \o SubSeq(mids, k + 1, Len(mids))

\* The removal that keeps a thread left empty in the index.
UnthreadKeepingEmpty(thread_index, meeting_id, thread_id) ==
    IF thread_id = NoId THEN thread_index
    ELSE [thread_index EXCEPT ![thread_id] = RemoveFirst(@, meeting_id)]

\* "Remove from thread mapping" of delete_meeting: the id leaves the thread
\* that lists it, and a thread left empty leaves the index.
Unthread(thread_index, meeting_id, thread_id) ==
    IF thread_id = NoId THEN thread_index
    ELSE IF RemoveFirst(thread_index[thread_id], meeting_id) = <<>>
    THEN [t \in (DOMAIN thread_index) \ {thread_id} |-> thread_index[t]]
    ELSE [thread_index EXCEPT ![thread_id] = RemoveFirst(@, meeting_id)]

\* MeetingStore.delete_meeting
delete_meeting(w, meeting_id, save_ok) ==
    IF get_meeting(w, meeting_id) = NoMeeting THEN Return(w, FALSE)
    ELSE IF ~can_modify_meeting(w, get_meeting(w, meeting_id)) THEN Return(w, FALSE)
    ELSE Return(save(Called([w EXCEPT
                               !.meetings = SelectSeq(@, LAMBDA m : m.id # meeting_id),
                               !.threads = Unthread(@, meeting_id,
                                               get_thread_for_meeting(w, meeting_id))],
                            "delete_meeting", meeting_id),
                     save_ok),
                TRUE)

\* sorted(records, key=created_at): ascending, equals in the list's order.
RECURSIVE SortedByCreation(_)
SortedByCreation(records) ==
    IF records = <<>> THEN <<>>
    ELSE LET k == CHOOSE i \in 1..Len(records) :
                    /\ \A j \in 1..Len(records) :
                         records[i].created_at <= records[j].created_at
                    /\ \A j \in 1..(i - 1) :
                         records[j].created_at > records[i].created_at
         IN  <<records[k]>> \o
             SortedByCreation(SubSeq(records, 1, k - 1) \o
                              SubSeq(records, k + 1, Len(records)))

\* MeetingStore.get_thread_meetings
get_thread_meetings(w, thread_id) ==
    SortedByCreation(
        SelectSeq(store_meetings(w),
                  LAMBDA m : m.id \in Range(Get(w.threads, thread_id, <<>>))))

\* The days from 0001-01-01 to the first of the month mo of year y, and a
\* datetime as the minutes from 0001-01-01 00:00.
RECURSIVE DaysBeforeMonth(_, _)
DaysBeforeMonth(y, mo) ==
    IF mo = 1 THEN 0 ELSE DaysBeforeMonth(y, mo - 1) + DaysInMonth(y, mo - 1)

DaysBeforeYear(y) ==
    365 * (y - 1) + ((y - 1) \div 4) - ((y - 1) \div 100) + ((y - 1) \div 400)

Minutes(date, time) ==
    (DaysBeforeYear(date.y) + DaysBeforeMonth(date.y, date.mo) + (date.d - 1)) * 1440
      + time.h * 60 + time.m

NoSlot == <<>>

\* MeetingStore._parse_meeting_datetime: (start, end), or None.
parse_meeting_datetime(date, time, duration_minutes) ==
    IF date = NoDate \/ time = NoTime THEN NoSlot
    ELSE IF ~TimeParses(time) THEN NoSlot
    ELSE IF ~DateParses(date) THEN NoSlot
    ELSE <<Minutes(date, time),
           Minutes(date, time) +
             (IF duration_minutes = 0 THEN 45 ELSE duration_minutes)>>

\* The test on closed intervals: meetings that only touch overlap.
ConflictsClosed(slot, m, exclude_meeting_id) ==
    /\ m.status # "cancelled"
    /\ ~(exclude_meeting_id # NoId /\ m.id = exclude_meeting_id)
    /\ parse_meeting_datetime(m.date, m.time, m.duration_minutes) # NoSlot
    /\ slot[1] <= parse_meeting_datetime(m.date, m.time, m.duration_minutes)[2]
    /\ slot[2] >= parse_meeting_datetime(m.date, m.time, m.duration_minutes)[1]

\* The test of the loop of get_conflicting_meetings on one record.
Conflicts(slot, m, exclude_meeting_id) ==
    /\ m.status # "cancelled"
    /\ ~(exclude_meeting_id # NoId /\ m.id = exclude_meeting_id)
    /\ parse_meeting_datetime(m.date, m.time, m.duration_minutes) # NoSlot
    /\ slot[1] < parse_meeting_datetime(m.date, m.time, m.duration_minutes)[2]
    /\ slot[2] > parse_meeting_datetime(m.date, m.time, m.duration_minutes)[1]

\* MeetingStore.get_conflicting_meetings
get_conflicting_meetings(w, date, time, duration_minutes, exclude_meeting_id) ==
    IF parse_meeting_datetime(date, time, duration_minutes) = NoSlot THEN <<>>
    ELSE SelectSeq(store_meetings(w),
                   LAMBDA m : Conflicts(parse_meeting_datetime(date, time, duration_minutes),
                                        m, exclude_meeting_id))

\* Event ids of the mock calendar start with "mock_".
IsMock(event_id) == event_id[1] = "mock"

\* The calendar patches an event only if it holds it.
UpdateSucceeds(w, upd_ok, event_id) ==
    upd_ok /\ IndexOfId(w.calendar_events, event_id) # 0

\* CalendarService.update_event
update_event(w, upd_ok, event_id, date, time, duration_minutes) ==
    IF UpdateSucceeds(w, upd_ok, event_id)
    THEN [Called(w, "update_event", event_id)
            EXCEPT !.calendar_events[IndexOfId(w.calendar_events, event_id)] =
                       Update(@, [date |-> date, time |-> time,
                                  duration_minutes |-> duration_minutes])]
    ELSE Called(w, "update_event", event_id)

\* CalendarService.update_event_attendees
update_event_attendees(w, upd_ok, event_id, attendee_emails) ==
    IF UpdateSucceeds(w, upd_ok, event_id)
    THEN [Called(w, "update_event_attendees", attendee_emails)
            EXCEPT !.calendar_events[IndexOfId(w.calendar_events, event_id)] =
                       Update(@, [attendees |-> attendee_emails])]
    ELSE Called(w, "update_event_attendees", attendee_emails)

\* [p.get("name", "").strip().lower() for p in ps if p.get("name")]
HintNames(ps) ==
    LET named == SelectSeq(ps, LAMBDA q : q.name # <<>>)
    IN  [i \in 1..Len(named) |-> Lower(Strip(named[i].name))]

\* matches(m): some hint is a substring of some participant name.
MatchesHints(m, hint_names) ==
    \E i \in 1..Len(m.participants), j \in 1..Len(hint_names) :
        Contains(hint_names[j], Lower(m.participants[i]))

\* sorted(candidates, key=created_at, reverse=True)[0]: the latest record,
\* the first of the list among equals.
Latest(candidates) ==
    IF candidates = <<>> THEN NoMeeting
    ELSE candidates[CHOOSE i \in 1..Len(candidates) :
           /\ \A j \in 1..Len(candidates) :
                candidates[j].created_at <= candidates[i].created_at
           /\ \A j \in 1..(i - 1) :
                candidates[j].created_at < candidates[i].created_at]

\* MeetingManager._find_meeting_by_participant_hints
find_meeting_by_participant_hints(hint_names, scheduled) ==
    IF hint_names = <<>> THEN Latest(scheduled)
    ELSE Latest(SelectSeq(scheduled, LAMBDA m : MatchesHints(m, hint_names)))

\* The first date match with 1 <= day <= 31 and year >= 2000, as a date.
RECURSIVE FlexDate(_)
FlexDate(matches) ==
    IF matches = <<>> THEN NoDate
    ELSE IF Head(matches).day \in 1..31 /\ Head(matches).year >= 2000
         THEN [y |-> Head(matches).year, mo |-> Head(matches).month,
               d |-> Head(matches).day]
         ELSE FlexDate(Tail(matches))

\* The time _parse_flexible_datetime finds beside a date.
FlexTime(text) ==
    IF text.clock.h # -1
    THEN [h |-> Hour24(text.clock.h, text.clock.ampm), m |-> text.clock.m]
    ELSE IF text.hour_ampm.h # -1
    THEN [h |-> Hour24(text.hour_ampm.h, text.hour_ampm.ampm), m |-> 0]
    ELSE [h |-> 9, m |-> 0]

\* MeetingManager._parse_flexible_datetime: (None, None) is NoDate, NoTime.
parse_flexible_datetime(text) ==
    IF FlexDate(text.dates) = NoDate THEN [date |-> NoDate, time |-> NoTime]
    ELSE [date |-> FlexDate(text.dates), time |-> FlexTime(text)]

\* The new date and time of _handle_reschedule: the parser's, else the
\* message's, and 09:00 when only a date is given.
NewWhen(date, time, flex) ==
    LET new_date == IF date # NoDate THEN date ELSE flex.date
        new_time == IF time # NoTime \/ flex.date = NoDate THEN time ELSE flex.time
    IN  [date |-> new_date,
         time |-> IF new_date # NoDate /\ new_time = NoTime
                  THEN [h |-> 9, m |-> 0] ELSE new_time]

RescheduleWhen(md, text) ==
    NewWhen(md.date, md.time,
            IF (md.date = NoDate \/ md.time = NoTime) /\ text.words # ""
            THEN parse_flexible_datetime(text)
            ELSE [date |-> NoDate, time |-> NoTime])

\* hint_names of _handle_reschedule.
RescheduleHints(md) ==
    IF HintNames(md.meeting_ref_participants) # <<>>
    THEN HintNames(md.meeting_ref_participants)
    ELSE HintNames(md.participants)

\* duration of _handle_reschedule.
RescheduleDuration(md, meeting) ==
    LET new_duration == IF md.duration_minutes # 0 THEN md.duration_minutes
                        ELSE DEFAULT_MEETING_DURATION_MINUTES
    IN  IF new_duration # 0 THEN new_duration ELSE meeting.duration_minutes

Chat(w, message) == [w EXCEPT !.result = Result("chat", message)]

\* A handler's report, unless a save raised on the way.
Report(w, action, message) ==
    IF w.result = Raised THEN w ELSE [w EXCEPT !.result = Result(action, message)]

\* The calendar part of _handle_reschedule: update the event when there is a
\* real event id, else (or when the update failed) create a new event and
\* notify the participants.
RescheduleUpdated(w, in, meeting) ==
    /\ in.auth
    /\ meeting.calendar_event_id # NoId
    /\ ~IsMock(meeting.calendar_event_id)
    /\ UpdateSucceeds(w, in.upd_ok, meeting.calendar_event_id)

RescheduleCreated(w, in, meeting) ==
    in.auth /\ ~RescheduleUpdated(w, in, meeting) /\ in.cal_ok

RescheduleTryUpdate(w, in, meeting, when, duration) ==
    IF in.auth /\ meeting.calendar_event_id # NoId /\ ~IsMock(meeting.calendar_event_id)
    THEN update_event(w, in.upd_ok, meeting.calendar_event_id, when.date, when.time,
                      duration)
    ELSE w

RescheduleTryCreate(w, w0, in, meeting, when, duration) ==
    IF in.auth /\ ~RescheduleUpdated(w0, in, meeting)
    THEN create_event(w, in.cal_ok, meeting.title, when.date, when.time, duration,
                      meeting.participant_emails)
    ELSE w

RescheduleNotify(w, w0, in, meeting) ==
    IF RescheduleCreated(w0, in, meeting) /\ SMTP_EMAIL # ""
       /\ meeting.participant_emails # <<>>
    THEN Called(w, "send_meeting_invite_to_participants", meeting.participant_emails)
    ELSE w

\* The ledger write of _handle_reschedule; w0 is the world before the
\* calendar calls, w the world after them.
RescheduleStore(w, w0, in, meeting, when, duration) ==
    update_meeting(w, meeting.id,
                   [date |-> when.date, time |-> when.time,
                    duration_minutes |-> duration,
                    calendar_event_id |->
                        IF RescheduleCreated(w0, in, meeting)
                        THEN CreatedEventId(w, TRUE)
                        ELSE meeting.calendar_event_id],
                   in.save_ok)

RescheduleMeeting(w, in, meeting, when, duration) ==
    Report(
        RescheduleStore(
            RescheduleNotify(
                RescheduleTryCreate(
                    RescheduleTryUpdate(w, in, meeting, when, duration),
                    w, in, meeting, when, duration),
                w, in, meeting),
            w, in, meeting, when, duration),
        "rescheduled",
        IF RescheduleUpdated(w, in, meeting) \/ RescheduleCreated(w, in, meeting)
        THEN "rescheduled, calendar and invite updates sent"
        ELSE "record updated, the calendar event could not be updated")

RescheduleFound(w, in, meeting, when) ==
    IF meeting.id = NoId THEN Chat(w, "no scheduled meeting matching that")
    ELSE IF when.date = NoDate THEN Chat(w, "what date and time?")
    ELSE IF ~DateTimeParses(when.date, when.time)
    THEN Chat(w, "could not parse that date or time")
    ELSE RescheduleMeeting(w, in, meeting, when,
                           RescheduleDuration(in.quick.meeting_details, meeting))

\* MeetingManager._handle_reschedule
handle_reschedule(w, in) ==
    IF Scheduled(w) = <<>> THEN Chat(w, "no scheduled meetings to reschedule")
    ELSE RescheduleFound(
             w, in,
             find_meeting_by_participant_hints(
                 RescheduleHints(in.quick.meeting_details), Scheduled(w)),
             RescheduleWhen(in.quick.meeting_details, in.text))

\* MeetingManager._extract_add_target_from_message: [{"name": n}, ...]
extract_add_target_from_message(text) ==
    [i \in 1..Len(text.add_target) |-> PSpec(text.add_target[i], <<>>, FALSE)]

\* to_add_raw of _handle_add_attendees.
AddTargets(md, text) ==
    IF md.participants = <<>> /\ text.words # ""
    THEN extract_add_target_from_message(text) ELSE md.participants

\* ref_names of _handle_add_attendees.
AddRefNames(md, text) ==
    IF HintNames(md.meeting_ref_participants) = <<>> /\ AddTargets(md, text) # <<>>
       /\ text.words # "" /\ text.meeting_with # <<>>
    THEN <<Lower(Strip(text.meeting_with))>>
    ELSE HintNames(md.meeting_ref_participants)

\* str.lower() on an email: the one address of the model that is spelled
\* with a capital is Sam Roy's, as an older record has it.
EmailLower(email) == IF email = "Roy@office" THEN "roy@office" ELSE email

\* The merge that compares the emails as they are spelled.
RECURSIVE MergeExactCase(_, _, _)
MergeExactCase(acc, new_emails, new_names) ==
    IF new_emails = <<>> \/ new_names = <<>> THEN acc
    ELSE IF Head(new_emails) # "" /\ Head(new_emails) \notin Range(acc.emails)
         THEN MergeExactCase([emails |-> Append(acc.emails, Head(new_emails)),
                              names |-> Append(acc.names, Head(new_names))],
                             Tail(new_emails), Tail(new_names))
         ELSE MergeExactCase(acc, Tail(new_emails), Tail(new_names))

\* for email, name in zip(new_emails, new_names): append the pairs whose
\* email, in lower case, is not among the emails so far in lower case
\* (seen_emails).  acc is [emails, names].
RECURSIVE MergeAttendees(_, _, _)
MergeAttendees(acc, new_emails, new_names) ==
    IF new_emails = <<>> \/ new_names = <<>> THEN acc
    ELSE IF /\ Head(new_emails) # ""
            /\ EmailLower(Head(new_emails))
                 \notin {EmailLower(acc.emails[i]) : i \in 1..Len(acc.emails)}
         THEN MergeAttendees([emails |-> Append(acc.emails, Head(new_emails)),
                              names |-> Append(acc.names, Head(new_names))],
                             Tail(new_emails), Tail(new_names))
         ELSE MergeAttendees(acc, Tail(new_emails), Tail(new_names))

\* The date and time of the event _handle_add_attendees creates: the
\* record's, or the clock's when they do not parse.
Now == [date |-> [y |-> 2026, mo |-> 2, d |-> 16], time |-> [h |-> 8, m |-> 0]]

EventWhen(meeting) ==
    IF DateTimeParses(meeting.date, meeting.time)
    THEN [date |-> meeting.date, time |-> meeting.time] ELSE Now

AddCanUpdate(in, meeting) ==
    /\ meeting.calendar_event_id # NoId
    /\ ~IsMock(meeting.calendar_event_id)
    /\ in.auth

AddCreates(in, meeting) ==
    /\ ~AddCanUpdate(in, meeting)
    /\ in.auth
    /\ (meeting.calendar_event_id = NoId \/ IsMock(meeting.calendar_event_id))

\* cal_result.get("success") of _handle_add_attendees.
AddCalendarSuccess(w, in, meeting) ==
    \/ AddCanUpdate(in, meeting)
       /\ UpdateSucceeds(w, in.upd_ok, meeting.calendar_event_id)
    \/ AddCreates(in, meeting) /\ in.cal_ok

\* The link of a created event to the record (the turn's first save).
AddLink(w, in, meeting) ==
    IF in.cal_ok
    THEN update_meeting(w, meeting.id,
                        [calendar_event_id |-> CreatedEventId(w, TRUE)], in.save_ok)
    ELSE w

\* The calendar part of _handle_add_attendees.
AddCalendar(w, in, meeting, merged) ==
    IF AddCanUpdate(in, meeting)
    THEN update_event_attendees(w, in.upd_ok, meeting.calendar_event_id,
                                merged.emails)
    ELSE IF AddCreates(in, meeting)
    THEN AddLink(create_event(w, in.cal_ok, meeting.title, EventWhen(meeting).date,
                              EventWhen(meeting).time, meeting.duration_minutes,
                              merged.emails),
                 in, meeting)
    ELSE w

\* The ledger write of _handle_add_attendees: the turn's second save when a
\* created event was linked, else its first.
AddStore(w, in, meeting, merged) ==
    IF w.result = Raised THEN w
    ELSE update_meeting(w, meeting.id,
                        [participants |-> merged.names,
                         participant_emails |-> merged.emails],
                        IF AddCreates(in, meeting) /\ in.cal_ok
                        THEN in.save_ok2 ELSE in.save_ok)

AddNotify(w, w0, in, meeting, merged, new_contacts) ==
    IF /\ w.result # Raised
       /\ AddCalendarSuccess(w0, in, meeting)
       /\ \E i \in 1..Len(new_contacts) : new_contacts[i].name \in Range(merged.names)
       /\ SMTP_EMAIL # ""
    THEN Called(w, "send_meeting_invite_to_participants",
                get_emails_for_contacts(new_contacts))
    ELSE w

AddMerged(w, in, meeting, merged, new_contacts) ==
    IF Len(merged.emails) = Len(meeting.participant_emails)
    THEN Chat(w, "already on the meeting, or no email in the address book")
    ELSE Report(
             AddNotify(AddStore(AddCalendar(w, in, meeting, merged),
                                in, meeting, merged),
                       w, in, meeting, merged, new_contacts),
             "attendees_updated",
             IF AddCalendarSuccess(w, in, meeting)
             THEN "added, calendar and invite updates sent"
             ELSE "added, record updated, calendar could not be updated")

AddResolved(w, in, meeting, resolution) ==
    IF resolution.needs_disambiguation THEN Chat(w, "disambiguation")
    ELSE AddMerged(w, in, meeting,
                   MergeAttendees([emails |-> meeting.participant_emails,
                                   names |-> meeting.participants],
                                  get_emails_for_contacts(resolution.resolved),
                                  Names(resolution.resolved)),
                   resolution.resolved)

AddFound(w, in, meeting, to_add_raw) ==
    IF meeting.id = NoId THEN Chat(w, "no scheduled meeting matching that")
    ELSE AddResolved(w, in, meeting, resolve_all_participants(contacts, to_add_raw))

\* MeetingManager._handle_add_attendees
handle_add_attendees(w, in) ==
    IF AddTargets(in.quick.meeting_details, in.text) = <<>>
    THEN Chat(w, "who would you like to add?")
    ELSE IF Scheduled(w) = <<>> THEN Chat(w, "no scheduled meetings")
    ELSE AddFound(w, in,
                  find_meeting_by_participant_hints(
                      AddRefNames(in.quick.meeting_details, in.text), Scheduled(w)),
                  AddTargets(in.quick.meeting_details, in.text))

\* name_matches_any(name, hints)
name_matches_any(name, hints) ==
    \E j \in 1..Len(hints) : Contains(hints[j], Lower(name))

\* dict(zip(current_participants, current_emails)) when there are at least
\* as many emails as names, else {}: the last email paired with each name.
EmailsByName(names, emails) ==
    IF Len(emails) < Len(names) THEN EmptyDict
    ELSE [n \in Range(names) |->
            emails[CHOOSE i \in 1..Len(names) :
                     /\ names[i] = n
                     /\ \A j \in (i + 1)..Len(names) : names[j] # n]]

\* keep_emails of _handle_remove_attendees.
KeepEmails(keep_names, names, emails) ==
    LET by_name == EmailsByName(names, emails)
        known == SelectSeq(keep_names, LAMBDA n : n \in DOMAIN by_name)
    IN  IF Len(known) < Len(keep_names)
        THEN SubSeq(emails, 1, Min(Len(keep_names), Len(emails)))
        ELSE [i \in 1..Len(known) |-> by_name[known[i]]]

RemoveCanUpdate(in, meeting) ==
    /\ meeting.calendar_event_id # NoId
    /\ ~IsMock(meeting.calendar_event_id)
    /\ in.auth

RemoveCalendar(w, in, meeting, keep_emails) ==
    IF RemoveCanUpdate(in, meeting)
    THEN update_event_attendees(w, in.upd_ok, meeting.calendar_event_id, keep_emails)
    ELSE w

\* The removal that is also accepted when it removes nobody.
RemoveKeptOrSame(w, in, meeting, keep_names, keep_emails) ==
    IF Len(keep_names) > Len(meeting.participants)
    THEN Chat(w, "could not match those names to current attendees")
    ELSE Report(
             update_meeting(RemoveCalendar(w, in, meeting, keep_emails), meeting.id,
                            [participants |-> keep_names,
                             participant_emails |-> keep_emails],
                            in.save_ok),
             "attendees_updated", "removed, meeting record updated")

RemoveKept(w, in, meeting, keep_names, keep_emails) ==
    IF Len(keep_names) >= Len(meeting.participants)
    THEN Chat(w, "could not match those names to current attendees")
    ELSE Report(
             update_meeting(RemoveCalendar(w, in, meeting, keep_emails), meeting.id,
                            [participants |-> keep_names,
                             participant_emails |-> keep_emails],
                            in.save_ok),
             "attendees_updated",
             IF RemoveCanUpdate(in, meeting)
                /\ UpdateSucceeds(w, in.upd_ok, meeting.calendar_event_id)
             THEN "removed, calendar updated"
             ELSE "removed, meeting record updated")

RemoveNames(w, in, meeting, keep_names) ==
    RemoveKept(w, in, meeting, keep_names,
               KeepEmails(keep_names, meeting.participants,
                          meeting.participant_emails))

RemoveFound(w, in, meeting, to_remove_names_lower) ==
    IF meeting.id = NoId THEN Chat(w, "no scheduled meeting matching that")
    ELSE RemoveNames(w, in, meeting,
                     SelectSeq(meeting.participants,
                               LAMBDA n : ~name_matches_any(n, to_remove_names_lower)))

\* MeetingManager._handle_remove_attendees
handle_remove_attendees(w, in) ==
    IF HintNames(in.quick.meeting_details.participants) = <<>>
    THEN Chat(w, "who would you like to remove?")
    ELSE IF Scheduled(w) = <<>> THEN Chat(w, "no scheduled meetings")
    ELSE RemoveFound(w, in,
                     find_meeting_by_participant_hints(
                         HintNames(in.quick.meeting_details.meeting_ref_participants),
                         Scheduled(w)),
                     HintNames(in.quick.meeting_details.participants))

\* MeetingManager._handle_new_command
handle_new_command(w, in) ==
    LET parsed == in.quick
        intent == parsed.intent
    IN  IF intent \in SchedulingIntents THEN start_scheduling(w, parsed, in.slot)
        ELSE IF intent = "list_meetings" THEN list_meetings(w)
        ELSE IF intent = "search_mom" THEN [w EXCEPT !.result = Result("search_mom", "")]
        ELSE IF intent = "upload_recording"
        THEN [w EXCEPT !.result = Result("prompt_upload", "go to the Meetings page")]
        ELSE IF intent = "manage_contacts"
        THEN [w EXCEPT !.result = Result("redirect", "address book page")]
        ELSE IF intent = "reschedule_meeting" THEN handle_reschedule(w, in)
        ELSE IF intent = "add_attendees_to_meeting" THEN handle_add_attendees(w, in)
        ELSE IF intent = "remove_attendees_from_meeting"
        THEN handle_remove_attendees(w, in)
        ELSE IF intent = "cancel_meeting"
        THEN [w EXCEPT !.result = Result("cancel_meeting", "which meeting?")]
        ELSE [w EXCEPT !.result = Result("chat", "general chat")]

\* process_message without the intent check of the non-IDLE states.
RouteByStateOnly(w, in) ==
    IF w.state = AWAITING_CONFIRMATION THEN handle_confirmation(w, in)
    ELSE IF w.state = AWAITING_SLOT_CHOICE THEN handle_slot_choice(w, in)
    ELSE IF w.state = AWAITING_DISAMBIGUATION THEN handle_disambiguation(w, in)
    ELSE IF w.state = COLLECTING_INFO THEN handle_info_collection(w, in)
    ELSE handle_new_command(w, in)

\* MeetingManager.process_message.  The parser is a function of the message
\* and the history, so the parse of the intent check and the parse of
\* _handle_new_command for the same message are the same answer (in.quick).
process_message(w, in) ==
    IF w.state # IDLE /\ in.quick.intent \in NON_SCHEDULING_INTENTS
    THEN handle_new_command(reset(w), in)
    ELSE IF w.state = AWAITING_CONFIRMATION THEN handle_confirmation(w, in)
    ELSE IF w.state = AWAITING_SLOT_CHOICE THEN handle_slot_choice(w, in)
    ELSE IF w.state = AWAITING_DISAMBIGUATION THEN handle_disambiguation(w, in)
    ELSE IF w.state = COLLECTING_INFO THEN handle_info_collection(w, in)
    ELSE handle_new_command(w, in)

(***************************************************************************)
(* The state machine: one action per way a turn is routed.                 *)
(***************************************************************************)

\* The longest conversation explored (messages per conversation).
MaxTurns == 3

\* The most edits of the directory (address book page) in a conversation.
MaxEdits == 1

\* What is remembered of the last turn: the state it began in (from), how it
\* was routed (op) and its inputs.
NoTurn ==
    [from |-> "", op |-> "", intent |-> "", words |-> "", decision |-> "",
     reply |-> <<>>, cal_ok |-> FALSE, save_ok |-> FALSE, auth |-> FALSE,
     upd_ok |-> FALSE, save_ok2 |-> FALSE]

NoResolution ==
    [resolved |-> <<>>, needs_disambiguation |-> FALSE,
     disambiguation_needed |-> EmptyDict, warned |-> FALSE]

\* A call of the store: the function, the meeting id it was given (the
\* parent, the excluded id or the thread for the calls that take one), its
\* other arguments, what it returned, whether it raised, how many calls
\* were made, and the function and the id of the call before it when that
\* call returned (prev).
StoreCall(fn, meeting_id, arg) ==
    [fn |-> fn, meeting_id |-> meeting_id, arg |-> arg, ret |-> NoMeeting,
     raised |-> FALSE, n |-> 0, prev |-> <<"", NoId>>]

NoStoreCall == StoreCall("", NoId, <<>>)

\* A directory call: the function, its arguments, and what it returned (ret
\* for resolve_participant, resolution for _resolve_all_participants).
NoCall ==
    [fn |-> "", name |-> <<>>, department |-> <<>>, raw |-> <<>>, ret |-> <<>>,
     resolution |-> NoResolution]

\* A turn's inputs, with the unused ones at their defaults.
NoInput ==
    [text |-> PlainText(""), quick |-> [intent |-> "general_chat", meeting_details |-> NoDetails],
     parsed |-> [intent |-> "general_chat", meeting_details |-> NoDetails],
     llm |-> "not sure", slot |-> NoTime, cal_ok |-> FALSE, save_ok |-> FALSE,
     auth |-> FALSE, upd_ok |-> FALSE, save_ok2 |-> FALSE, smtp_ok |-> TRUE]

\* The state after construction, whatever the directory holds.
Fresh ==
    /\ state = IDLE
    /\ pending_meeting = EmptyDict
    /\ resolved_participants = <<>>
    /\ missing_fields = <<>>
    /\ disambiguation_context = EmptyDict
    /\ history_len = 0
    /\ meetings = <<>>
    /\ threads = EmptyDict
    /\ disk = [meetings |-> <<>>, threads |-> EmptyDict]
    /\ uuid_n = 0
    /\ calendar_events = <<>>
    /\ result = NoResult
    /\ trace = <<>>
    /\ turn = NoTurn
    /\ draft_effects = NoEffects
    /\ book_disk = contacts
    /\ edits = 0
    /\ call = NoCall
    /\ store_call = NoStoreCall

Init ==
    /\ contacts \in DialogueDirectories
    /\ user_email = STORE_USER
    /\ is_admin = FALSE
    /\ Fresh

\* The collaborators' answers that the turn received: an answer is an input
\* of the turn only if the call was made (tr is the turn's calls).
Answered(t, tr) ==
    LET updates == CallsIn(tr, "update_event") \cup CallsIn(tr, "update_event_attendees")
        creates == CallsIn(tr, "create_event")
        saves   == CallsIn(tr, "add_meeting") \cup CallsIn(tr, "update_meeting")
    IN  [t EXCEPT !.auth = @ /\ (updates \cup creates) # {},
                  !.upd_ok = @ /\ updates # {},
                  !.cal_ok = @ /\ creates # {},
                  !.save_ok = @ /\ saves # {},
                  !.save_ok2 = @ /\ Cardinality(saves) > 1]

\* process_message(in) as one step: the message is appended to the history
\* and the handler's effects are applied.
Turn(in, t) ==
    /\ history_len < MaxTurns
    /\ \E w \in {process_message([Self EXCEPT !.smtp_ok = in.smtp_ok], in)} :
        /\ history_len' = history_len + 1
        /\ state' = w.state
        /\ pending_meeting' = w.pending_meeting
        /\ resolved_participants' = w.resolved_participants
        /\ missing_fields' = w.missing_fields
        /\ disambiguation_context' = w.disambiguation_context
        /\ meetings' = w.meetings
        /\ threads' = w.threads
        /\ disk' = w.disk
        /\ uuid_n' = w.uuid_n
        /\ calendar_events' = w.calendar_events
        /\ result' = w.result
        /\ trace' = w.trace
        /\ draft_effects' = w.draft_effects
        /\ turn' = [Answered(t, w.trace) EXCEPT !.from = state]
        /\ UNCHANGED <<contacts, book_disk, edits, call, user_email, is_admin,
                       store_call>>

\* The calendar is asked for a slot only for a draft that wants the first
\* available one; otherwise its answer is not an input of the turn.
SlotAnswers(use_first_available) == IF use_first_available THEN Slots ELSE {NoTime}

\* IDLE: a schedule or follow-up command starts a draft.
ScheduleCommand ==
    /\ state = IDLE
    /\ \E details \in CommandDetails :
       \E slot \in SlotAnswers(details.use_first_available) :
         LET intent == IF details.is_followup THEN "followup_meeting"
                       ELSE "schedule_meeting"
         IN  Turn([NoInput EXCEPT !.quick = [intent |-> intent, meeting_details |-> details],
                                  !.slot = slot],
                  [NoTurn EXCEPT !.op = "start_scheduling", !.intent = intent])

\* The commands that are not scheduling commands.  The parser's answer is a
\* function of the message, so a command is a text, its intent and its
\* meeting_details, and no two commands have the same words.
Command(intent, text, details) ==
    [intent |-> intent, text |-> text, details |-> details]

ThreePm   == [h |-> 15, m |-> 0]

Named(name) == <<PSpec(name, <<>>, FALSE)>>

\* The intents whose handlers act on an existing meeting.
MODIFICATION_INTENTS ==
    {"reschedule_meeting", "add_attendees_to_meeting",
     "remove_attendees_from_meeting"}

RescheduleCommands ==
    { Command("reschedule_meeting", PlainText("move sam to wed 3pm"),
              [NoDetails EXCEPT !.meeting_ref_participants = Named(Sam),
                                !.date = Wednesday, !.time = ThreePm]),
      Command("reschedule_meeting", PlainText("move ann to wed for 30 min"),
              [NoDetails EXCEPT !.participants = Named(Ann),
                                !.date = Wednesday, !.duration_minutes = 30]),
      Command("reschedule_meeting", PlainText("move zed to wed 3pm"),
              [NoDetails EXCEPT !.meeting_ref_participants = Named(Zed),
                                !.date = Wednesday, !.time = ThreePm]),
      Command("reschedule_meeting",
              [PlainText("move it to 18 Feb 2026 3pm")
                 EXCEPT !.dates = <<[day |-> 18, month |-> 2, year |-> 2026]>>,
                        !.hour_ampm = [h |-> 3, m |-> -1, ampm |-> "pm"],
                        !.ampm_simple = [h |-> 3, m |-> -1, ampm |-> "pm"]],
              NoDetails),
      Command("reschedule_meeting",
              [PlainText("move it to 31 Feb 2026")
                 EXCEPT !.dates = <<[day |-> 31, month |-> 2, year |-> 2026]>>],
              NoDetails),
      Command("reschedule_meeting", PlainText("move it"), NoDetails) }

AddCommands ==
    { Command("add_attendees_to_meeting", PlainText("add sam roy to ann"),
              [NoDetails EXCEPT !.participants = Named(SamRoy),
                                !.meeting_ref_participants = Named(Ann)]),
      Command("add_attendees_to_meeting", PlainText("add sam to the meeting"),
              [NoDetails EXCEPT !.participants = Named(Sam)]),
      Command("add_attendees_to_meeting", PlainText("add tech to the meeting"),
              [NoDetails EXCEPT !.participants = <<PSpec(Tech, Tech, TRUE)>>]),
      Command("add_attendees_to_meeting",
              [PlainText("add ann to my meeting with sam")
                 EXCEPT !.add_target = <<Ann>>, !.meeting_with = Sam],
              NoDetails),
      Command("add_attendees_to_meeting", PlainText("add someone"), NoDetails) }

RemoveCommands ==
    { Command("remove_attendees_from_meeting", PlainText("remove sam"),
              [NoDetails EXCEPT !.participants = Named(Sam)]),
      Command("remove_attendees_from_meeting", PlainText("remove ann from sam"),
              [NoDetails EXCEPT !.participants = Named(Ann),
                                !.meeting_ref_participants = Named(Sam)]),
      Command("remove_attendees_from_meeting", PlainText("remove zed"),
              [NoDetails EXCEPT !.participants = Named(Zed)]),
      Command("remove_attendees_from_meeting", PlainText("remove someone"),
              NoDetails) }

ModificationCommands == RescheduleCommands \cup AddCommands \cup RemoveCommands

\* The other commands, as typed in IDLE and as typed inside a flow.
PlainCommands(texts) ==
    { Command(intent, text, NoDetails) :
        intent \in (Intents \ SchedulingIntents) \ MODIFICATION_INTENTS,
        text \in texts }

IdleCommands == PlainCommands({PlainText("")}) \cup ModificationCommands

SwitchCommands ==
    { c \in PlainCommands({PlainText("yes"), PlainText("make it later")})
             \cup ModificationCommands : c.intent \in NON_SCHEDULING_INTENTS }

\* What the calendar and the ledger's file answer in a turn.
Outcome(auth, upd_ok, cal_ok, save_ok, save_ok2) ==
    [auth |-> auth, upd_ok |-> upd_ok, cal_ok |-> cal_ok, save_ok |-> save_ok,
     save_ok2 |-> save_ok2]

NoOutcome == Outcome(FALSE, FALSE, FALSE, FALSE, FALSE)

\* The calendar and the file are asked only by a command on an existing
\* meeting when the ledger holds a scheduled one; otherwise their answers
\* are not inputs of the turn.  The calendar answers only when
\* authenticated.
Outcomes(intent) ==
    IF intent \in MODIFICATION_INTENTS /\ Scheduled(Self) # <<>>
    THEN { Outcome(TRUE, u, c, s, s2) : u, c, s, s2 \in BOOLEAN }
         \cup { Outcome(FALSE, FALSE, FALSE, s, FALSE) : s \in BOOLEAN }
    ELSE {NoOutcome}

\* The inputs of the turn for a command and the collaborators' answers.
CommandInput(c, o) ==
    [NoInput EXCEPT !.quick = [intent |-> c.intent, meeting_details |-> c.details],
                    !.text = c.text, !.auth = o.auth, !.upd_ok = o.upd_ok,
                    !.cal_ok = o.cal_ok, !.save_ok = o.save_ok,
                    !.save_ok2 = o.save_ok2]

CommandTurn(op, c, o) ==
    [NoTurn EXCEPT !.op = op, !.intent = c.intent, !.words = c.text.words,
                   !.auth = o.auth, !.upd_ok = o.upd_ok, !.cal_ok = o.cal_ok,
                   !.save_ok = o.save_ok, !.save_ok2 = o.save_ok2]

\* IDLE: any other command.
OtherCommand ==
    /\ state = IDLE
    /\ \E c \in IdleCommands :
       \E o \in Outcomes(c.intent) :
         Turn(CommandInput(c, o), CommandTurn("new_command", c, o))

\* Any state but IDLE: the message is parsed as a non-scheduling intent.
IntentSwitch ==
    /\ state # IDLE
    /\ \E c \in SwitchCommands :
       \E o \in Outcomes(c.intent) :
         Turn(CommandInput(c, o), CommandTurn("intent_switch", c, o))

\* AWAITING_CONFIRMATION: the reply is classified "confirmed".
Confirm ==
    /\ state = AWAITING_CONFIRMATION
    /\ \E text \in Texts, llm \in LlmAnswers, cal_ok \in BOOLEAN, save_ok \in BOOLEAN,
          smtp_ok \in BOOLEAN :
         /\ classify_confirmation(text, llm) = "confirmed"
         /\ Turn([NoInput EXCEPT !.text = text, !.llm = llm,
                                 !.cal_ok = cal_ok, !.save_ok = save_ok,
                                 !.smtp_ok = smtp_ok],
                 [NoTurn EXCEPT !.op = "confirmation", !.decision = "confirmed",
                                !.cal_ok = cal_ok, !.save_ok = save_ok])

\* AWAITING_CONFIRMATION: the reply is classified "cancelled".
Cancel ==
    /\ state = AWAITING_CONFIRMATION
    /\ \E text \in Texts, llm \in LlmAnswers :
         /\ classify_confirmation(text, llm) = "cancelled"
         /\ Turn([NoInput EXCEPT !.text = text, !.llm = llm],
                 [NoTurn EXCEPT !.op = "confirmation", !.decision = "cancelled"])

\* AWAITING_CONFIRMATION: the reply is classified "modification".
Modify ==
    /\ state = AWAITING_CONFIRMATION
    /\ \E reply \in Replies, llm \in LlmAnswers :
       \E slot \in SlotAnswers(Get(pending_meeting, "use_first_available", FALSE)) :
         /\ classify_confirmation(reply.text, llm) = "modification"
         /\ Turn([NoInput EXCEPT !.text = reply.text, !.llm = llm, !.slot = slot,
                                 !.parsed.meeting_details = reply.details],
                 [NoTurn EXCEPT !.op = "confirmation", !.decision = "modification"])

\* COLLECTING_INFO: the reply supplies (or not) what is missing.
InfoReply ==
    /\ state = COLLECTING_INFO
    /\ \E reply \in Replies :
       \E slot \in SlotAnswers(Get(pending_meeting, "use_first_available", FALSE)) :
         Turn([NoInput EXCEPT !.text = reply.text, !.slot = slot,
                              !.parsed.meeting_details = reply.details],
              [NoTurn EXCEPT !.op = "info_collection"])

\* AWAITING_DISAMBIGUATION: the reply names (or not) the contact meant.
DisambiguationReply ==
    /\ state = AWAITING_DISAMBIGUATION
    /\ \E ps \in ReplyParticipants :
         Turn([NoInput EXCEPT !.parsed.meeting_details.participants = ps],
              [NoTurn EXCEPT !.op = "disambiguation", !.reply = ps])

\* The address book page deletes a contact between two turns
\* (AddressBook.delete_contact, which saves the file).
DeleteContact ==
    /\ edits < MaxEdits
    /\ \E c \in Range(contacts) :
         /\ contacts' = delete_contact(contacts, c.id)
         /\ book_disk' = contacts'
    /\ edits' = edits + 1
    /\ UNCHANGED <<state, pending_meeting, resolved_participants, missing_fields,
                   disambiguation_context, history_len, meetings, threads, disk,
                   uuid_n, calendar_events, result, trace, turn, draft_effects,
                   call, user_email, is_admin, store_call>>

Next ==
    \/ ScheduleCommand
    \/ OtherCommand
    \/ IntentSwitch
    \/ Confirm
    \/ Cancel
    \/ Modify
    \/ InfoReply
    \/ DisambiguationReply
    \/ DeleteContact

Spec == Init /\ [][Next]_vars

(***************************************************************************)
(* Resolution runs: the directory functions applied to every directory of  *)
(* up to MaxContacts contacts and every input of the sets below.           *)
(***************************************************************************)

\* The largest directory, and the longest list of participant specs.
MaxContacts == 3
MaxSpecs == 2

\* The sequences without repetition of at most n elements of S.
RECURSIVE Arrangements(_, _)
Arrangements(S, n) ==
    IF n = 0 THEN {<<>>}
    ELSE LET shorter == Arrangements(S, n - 1)
         IN  shorter \cup UNION {{Append(q, c) : c \in S \ Range(q)} : q \in shorter}

\* The sequences of at most n elements of S.
RECURSIVE Lists(_, _)
Lists(S, n) ==
    IF n = 0 THEN {<<>>}
    ELSE LET shorter == Lists(S, n - 1)
         IN  shorter \cup {Append(q, c) : q \in shorter, c \in S}

Directories == Arrangements(ContactPool, MaxContacts)

RawLists == Lists(ParticipantSpecs, MaxSpecs)

QueryNames == {Sam, SamLee, SamRoy, Ann, Zed}

QueryDepartments == {<<>>, Sales, Tech, TechLow, Ops}

InitResolve ==
    /\ contacts \in Directories
    /\ user_email = STORE_USER
    /\ is_admin = FALSE
    /\ Fresh

Untouched ==
    UNCHANGED <<contacts, state, pending_meeting, resolved_participants,
                missing_fields, disambiguation_context, history_len, meetings,
                threads, disk, uuid_n, calendar_events, result, trace, turn,
                draft_effects, book_disk, edits, user_email, is_admin,
                store_call>>

\* AddressBook.resolve_participant(name, department) is called.
CallResolveParticipant ==
    /\ call = NoCall
    /\ \E name \in QueryNames, department \in QueryDepartments :
         call' = [NoCall EXCEPT !.fn = "resolve_participant",
                                !.name = name, !.department = department,
                                !.ret = resolve_participant(contacts, name, department)]
    /\ Untouched

\* MeetingManager._resolve_all_participants(participants_raw) is called.
CallResolveAllParticipants ==
    /\ call = NoCall
    /\ \E raw \in RawLists :
         call' = [NoCall EXCEPT !.fn = "resolve_all_participants", !.raw = raw,
                                !.resolution = resolve_all_participants(contacts, raw)]
    /\ Untouched

NextResolve ==
    \/ CallResolveParticipant
    \/ CallResolveAllParticipants

SpecResolve == InitResolve /\ [][NextResolve]_vars

(***************************************************************************)
(* Lookup runs: resolve_participant on the directories that also hold a    *)
(* contact whose name is blank, which the "Add Contact" form accepts.      *)
(***************************************************************************)

Blank == <<" ">>

LookupDirectories ==
    Arrangements(ContactPool \cup {Contact("c7", Blank, "blank@office", Sales)},
                 MaxContacts)

InitLookup ==
    /\ contacts \in LookupDirectories
    /\ user_email = STORE_USER
    /\ is_admin = FALSE
    /\ Fresh

NextLookup == CallResolveParticipant

SpecLookup == InitLookup /\ [][NextLookup]_vars

(***************************************************************************)
(* Ledger runs: the calls of MeetingStore on a ledger file that holds the  *)
(* records of several owners, by a store opened for each kind of requester.*)
(***************************************************************************)

\* The most calls of the store in a run.
MaxCalls == 2

BOB == "bob@office"

\* A record as add_meeting wrote it when it was the n-th id generated.
SeedMeeting(n, owner, time, duration_minutes, status, thread_n, parent_meeting_id) ==
    [id |-> <<"mtg", n>>, thread_id |-> <<"thread", thread_n>>,
     parent_meeting_id |-> parent_meeting_id, user_email |-> owner,
     title |-> [text |-> "Sync", with |-> <<>>], date |-> Tuesday, time |-> time,
     duration_minutes |-> duration_minutes, participants |-> <<AnnPoe>>,
     participant_emails |-> <<>>, description |-> "", calendar_event_id |-> NoId,
     mom_id |-> NoId, status |-> status, created_at |-> n]

\* Alice's 14:00-14:30, Bob's 14:00-14:30, a record without owner of unset
\* duration at 14:20, and Alice's cancelled follow-up of her first meeting.
SeedMeetings ==
    << SeedMeeting(1, STORE_USER, TwoPm, 30, "scheduled", 1, NoId),
       SeedMeeting(2, BOB, TwoPm, 30, "scheduled", 2, NoId),
       SeedMeeting(3, "", [h |-> 14, m |-> 20], 0, "scheduled", 3, NoId),
       SeedMeeting(4, STORE_USER, [h |-> 14, m |-> 30], 30, "cancelled", 1, <<"mtg", 1>>) >>

\* The thread index add_meeting built for the records.
ThreadIndex(records) ==
    [t \in {records[i].thread_id : i \in 1..Len(records)} |->
       LET listed == SelectSeq(records, LAMBDA m : m.thread_id = t)
       IN  [i \in 1..Len(listed) |-> listed[i].id]]

\* The ledger files: every selection of the seed records, in their order.
LedgerContents ==
    { SelectSeq(SeedMeetings, LAMBDA m : m.id[2] \in kept) :
        kept \in SUBSET (1..Len(SeedMeetings)) }

\* The stores: of an ordinary user, without identity, and of the admin.
Requesters ==
    { [user_email |-> STORE_USER, is_admin |-> FALSE],
      [user_email |-> "", is_admin |-> FALSE],
      [user_email |-> "admin@office", is_admin |-> TRUE] }

InitLedger ==
    /\ contacts \in {<<>>}
    /\ \E r \in Requesters : user_email = r.user_email /\ is_admin = r.is_admin
    /\ state = IDLE
    /\ pending_meeting = EmptyDict
    /\ resolved_participants = <<>>
    /\ missing_fields = <<>>
    /\ disambiguation_context = EmptyDict
    /\ history_len = 0
    /\ meetings \in LedgerContents
    /\ threads = ThreadIndex(meetings)
    /\ disk = [meetings |-> meetings, threads |-> threads]
    /\ uuid_n = Len(SeedMeetings)
    /\ calendar_events = <<>>
    /\ result = NoResult
    /\ trace = <<>>
    /\ turn = NoTurn
    /\ draft_effects = NoEffects
    /\ book_disk = contacts
    /\ edits = 0
    /\ call = NoCall
    /\ store_call = NoStoreCall

\* The ids the calls are given: those of the seed records and one that no
\* record has.
MISSING_ID == <<"mtg", 0>>
CallIds == {SeedMeetings[i].id : i \in 1..Len(SeedMeetings)} \cup {MISSING_ID}

\* The store after a call (w), and the call with what it returned.
Returned(w, c) ==
    /\ store_call.n < MaxCalls
    /\ meetings' = w.meetings
    /\ threads' = w.threads
    /\ disk' = w.disk
    /\ uuid_n' = w.uuid_n
    /\ store_call' = [c EXCEPT !.ret = w.ret, !.raised = (w.result = Raised),
                               !.n = store_call.n + 1,
                               !.prev = IF store_call.raised THEN <<"", NoId>>
                                        ELSE <<store_call.fn, store_call.meeting_id>>]
    /\ UNCHANGED <<contacts, state, pending_meeting, resolved_participants,
                   missing_fields, disambiguation_context, history_len,
                   calendar_events, result, trace, turn, draft_effects,
                   book_disk, edits, call, user_email, is_admin>>

\* The meeting_info of the add_meeting calls: a quarter past two, half an hour.
NewInfo ==
    [title |-> [text |-> "Sync", with |-> <<>>], date |-> Tuesday,
     time |-> [h |-> 14, m |-> 15], duration_minutes |-> 30,
     participants |-> <<AnnPoe>>, participant_emails |-> <<>>,
     description |-> "", calendar_event_id |-> NoId]

CallAddMeeting ==
    \E parent_meeting_id \in CallIds \cup {NoId}, save_ok \in BOOLEAN :
      Returned(add_meeting(Self, NewInfo, parent_meeting_id, save_ok),
               StoreCall("add_meeting", parent_meeting_id, NewInfo))

\* The kwargs of the update_meeting calls.
Kwargs == {[status |-> "completed"], [time |-> ThreePm, duration_minutes |-> 60]}

CallUpdateMeeting ==
    \E meeting_id \in CallIds, kwargs \in Kwargs, save_ok \in BOOLEAN :
      Returned(update_meeting(Self, meeting_id, kwargs, save_ok),
               StoreCall("update_meeting", meeting_id, kwargs))

CallCancelMeeting ==
    \E meeting_id \in CallIds, save_ok \in BOOLEAN :
      Returned(cancel_meeting(Self, meeting_id, save_ok),
               StoreCall("cancel_meeting", meeting_id, <<>>))

CallDeleteMeeting ==
    \E meeting_id \in CallIds, save_ok \in BOOLEAN :
      Returned(delete_meeting(Self, meeting_id, save_ok),
               StoreCall("delete_meeting", meeting_id, <<>>))

\* The candidate slots: ending when the seed meetings start, starting when
\* they end, overlapping them in part, containing them, of unset duration,
\* on another day, and one whose date does not parse.
Candidate(date, time, duration_minutes) ==
    [date |-> date, time |-> time, duration_minutes |-> duration_minutes]

Candidates ==
    { Candidate(Tuesday, [h |-> 13, m |-> 30], 30),
      Candidate(Tuesday, [h |-> 14, m |-> 30], 30),
      Candidate(Tuesday, [h |-> 14, m |-> 15], 30),
      Candidate(Tuesday, [h |-> 13, m |-> 0], 120),
      Candidate(Tuesday, [h |-> 13, m |-> 30], 0),
      Candidate(Wednesday, TwoPm, 30),
      Candidate(BadDate, TwoPm, 30) }

CallGetConflictingMeetings ==
    \E slot \in Candidates, exclude_meeting_id \in {NoId, <<"mtg", 1>>} :
      Returned([Self EXCEPT !.ret = get_conflicting_meetings(Self, slot.date, slot.time,
                                        slot.duration_minutes, exclude_meeting_id)],
               StoreCall("get_conflicting_meetings", exclude_meeting_id, slot))

CallGetThreadMeetings ==
    \E thread_id \in {<<"thread", 1>>, <<"thread", 2>>} :
      Returned([Self EXCEPT !.ret = get_thread_meetings(Self, thread_id)],
               StoreCall("get_thread_meetings", thread_id, <<>>))

NextLedger ==
    \/ CallAddMeeting
    \/ CallUpdateMeeting
    \/ CallCancelMeeting
    \/ CallDeleteMeeting
    \/ CallGetConflictingMeetings
    \/ CallGetThreadMeetings

SpecLedger == InitLedger /\ [][NextLedger]_vars

(***************************************************************************)
(* Dialogue runs on a ledger of earlier conversations: the turns of the    *)
(* state machine, started with records in the ledger file.                 *)
(***************************************************************************)

\* A record as the commit of a draft for Sam and Ann Poe wrote it (Ann Poe
\* has no email), with the event the calendar created for it, and its
\* status now.
EarlierEvent ==
    [id |-> <<"evt", 1>>, title |-> [text |-> "Sync", with |-> <<>>],
     date |-> Tuesday, time |-> TwoPm, duration_minutes |-> 30,
     attendees |-> <<"sam.s@office">>]

EarlierMeeting(status) ==
    [id |-> <<"mtg", 2>>, thread_id |-> <<"thread", 2>>, parent_meeting_id |-> NoId,
     user_email |-> STORE_USER, title |-> [text |-> "Sync", with |-> <<>>],
     date |-> Tuesday, time |-> TwoPm, duration_minutes |-> 30,
     participants |-> <<Sam, AnnPoe>>, participant_emails |-> <<"sam.s@office">>,
     description |-> "", calendar_event_id |-> <<"evt", 1>>, mom_id |-> NoId,
     status |-> status, created_at |-> 2]

\* A later record for Ann Poe alone, committed while the calendar failed.
LaterMeeting ==
    [id |-> <<"mtg", 3>>, thread_id |-> <<"thread", 3>>, parent_meeting_id |-> NoId,
     user_email |-> STORE_USER,
     title |-> [text |-> "Meeting with", with |-> <<AnnPoe>>],
     date |-> Tuesday, time |-> ThreePm, duration_minutes |-> 45,
     participants |-> <<AnnPoe>>, participant_emails |-> <<>>,
     description |-> "", calendar_event_id |-> NoId, mom_id |-> NoId,
     status |-> "scheduled", created_at |-> 3]

\* The ledgers: the earlier meeting scheduled, cancelled, and cancelled
\* beside the later one.
EarlierLedgers ==
    { <<EarlierMeeting("scheduled")>>, <<EarlierMeeting("cancelled")>>,
      <<EarlierMeeting("cancelled"), LaterMeeting>> }

InitSeeded ==
    /\ contacts = <<PoolContact("c1"), PoolContact("c2"), PoolContact("c5")>>
    /\ user_email = STORE_USER
    /\ is_admin = FALSE
    /\ state = IDLE
    /\ pending_meeting = EmptyDict
    /\ resolved_participants = <<>>
    /\ missing_fields = <<>>
    /\ disambiguation_context = EmptyDict
    /\ history_len = 1
    /\ meetings \in EarlierLedgers
    /\ threads = ThreadIndex(meetings)
    /\ disk = [meetings |-> meetings, threads |-> threads]
    /\ uuid_n = 3
    /\ calendar_events = <<EarlierEvent>>
    /\ result = NoResult
    /\ trace = <<>>
    /\ turn = NoTurn
    /\ draft_effects = NoEffects
    /\ book_disk = contacts
    /\ edits = 0
    /\ call = NoCall
    /\ store_call = NoStoreCall

SpecSeeded == InitSeeded /\ [][Next]_vars

(***************************************************************************)
(* Properties.                                                             *)
(***************************************************************************)

\* The step is a turn of the conversation (process_message ran).
TurnTaken == history_len' = history_len + 1

DraftIsEmpty ==
    /\ pending_meeting = EmptyDict
    /\ resolved_participants = <<>>
    /\ missing_fields = <<>>
    /\ disambiguation_context = EmptyDict

\* The commit effects of a step: a write of the ledger (memory or file), a
\* change of the calendar, or a create-event / add-meeting call.
CommitEffects ==
    \/ meetings' # meetings
    \/ threads' # threads
    \/ disk' # disk
    \/ calendar_events' # calendar_events
    \/ CallsIn(trace', "create_event") # {}
    \/ CallsIn(trace', "add_meeting") # {}

\* The turns of the scheduling flow.
SchedulingFlowOps ==
    {"start_scheduling", "info_collection", "confirmation", "disambiguation"}

\* C1: for every draft, create-event and add-meeting are each performed at
\* most once, whatever the turns and the outcomes of the calendar and of the
\* ledger's save, and exactly once each when the draft is committed.
EffectsOncePerDraft ==
    /\ draft_effects.create <= 1
    /\ draft_effects.add <= 1
    /\ draft_effects.committed =>
         (draft_effects.create = 1 /\ draft_effects.add = 1)

\* C2: in the scheduling flow a record is added and a calendar event is
\* created only in a turn that begins in AWAITING_CONFIRMATION and whose
\* reply is classified "confirmed"; every other turn of the flow leaves the
\* ledger and the calendar unchanged.
CommitOnlyOnConfirmedTurn ==
    [][(TurnTaken /\ turn'.op \in SchedulingFlowOps /\ CommitEffects)
          => (state = AWAITING_CONFIRMATION /\ turn'.decision = "confirmed")]_vars

\* A confirmed turn has added a record and created an event.
ConfirmedTurnCommitted ==
    /\ turn.from = AWAITING_CONFIRMATION
    /\ turn.decision = "confirmed"
    /\ meetings # <<>>
    /\ calendar_events # <<>>

\* The command and the answers of the collaborators of a turn.
CommandOf(t) ==
    CHOOSE c \in SwitchCommands : c.intent = t.intent /\ c.text.words = t.words

OutcomeOf(t) == Outcome(t.auth, t.upd_ok, t.cal_ok, t.save_ok, t.save_ok2)

\* What a fresh IDLE manager with the same ledger and calendar does with
\* the message of the turn.
FreshCommand(t) ==
    handle_new_command(reset(Self), CommandInput(CommandOf(t), OutcomeOf(t)))

\* The turn left the ledger, the calendar and the reply as w has them.
EndsAs(w) ==
    /\ result' = w.result
    /\ meetings' = w.meetings
    /\ threads' = w.threads
    /\ disk' = w.disk
    /\ calendar_events' = w.calendar_events
    /\ uuid_n' = w.uuid_n
    /\ trace' = w.trace

\* No record was added, and no create-event or add-meeting of the draft
\* was performed.
DraftNotCommitted ==
    /\ Len(meetings') = Len(meetings)
    /\ CallsIn(trace', "add_meeting") = {}
    /\ draft_effects' = draft_effects

\* C3: in every state but IDLE, a message the parser labels with a
\* non-scheduling intent discards the draft, the resolved participants, the
\* missing fields and the disambiguation context, is answered as a fresh
\* IDLE command, and ends in IDLE without committing the abandoned draft.
IntentSwitchAbandonsDraft ==
    [][(TurnTaken /\ state # IDLE /\ turn'.intent \in NON_SCHEDULING_INTENTS)
          => /\ state' = IDLE
             /\ DraftIsEmpty'
             /\ EndsAs(FreshCommand(turn'))
             /\ DraftNotCommitted]_vars

\* A draft awaiting confirmation was abandoned by a message whose text says
\* "yes" and whose intent is a non-scheduling one.
YesWithOtherIntentAbandoned ==
    /\ turn.op = "intent_switch"
    /\ turn.from = AWAITING_CONFIRMATION
    /\ turn.words = "yes"
    /\ state = IDLE
    /\ meetings = <<>>

\* C4: after a confirmed commit, a cancellation at confirmation, or a commit
\* aborted for an unparseable date/time, the state is IDLE and the draft,
\* the resolved participants, the missing fields and the disambiguation
\* context are empty.
TerminalTransitionsReset ==
    result.action \in {"scheduled", "cancelled", "error"}
        => (state = IDLE /\ DraftIsEmpty)

\* A draft with resolved participants was cancelled at confirmation.
CancelledAtConfirmation ==
    /\ result.action = "cancelled"
    /\ turn.from = AWAITING_CONFIRMATION
    /\ state = IDLE

\* C5: when a confirmed draft is committed and create-event returns
\* success = false, exactly one record with status "scheduled" is added, the
\* turn ends in IDLE and the response is the "recorded locally" message.
CalendarFailureStillRecords ==
    [][(/\ TurnTaken
        /\ state = AWAITING_CONFIRMATION
        /\ turn'.op = "confirmation"
        /\ turn'.decision = "confirmed"
        /\ DateTimeParses(Get(pending_meeting, "date", NoDate),
                          Get(pending_meeting, "time", NoTime))
        /\ ~turn'.cal_ok
        /\ turn'.save_ok)
          => /\ Len(meetings') = Len(meetings) + 1
             /\ SubSeq(meetings', 1, Len(meetings)) = meetings
             /\ meetings'[Len(meetings')].status = "scheduled"
             /\ meetings'[Len(meetings')].calendar_event_id = NoId
             /\ calendar_events' = calendar_events
             /\ state' = IDLE
             /\ result' = Result("scheduled",
                                 "recorded locally, calendar invite could not be sent")]_vars

\* A commit whose create-event failed has recorded the meeting.
RecordedWithoutInvite ==
    /\ turn.decision = "confirmed"
    /\ ~turn.cal_ok
    /\ result.message = "recorded locally, calendar invite could not be sent"
    /\ meetings # <<>>
    /\ calendar_events = <<>>

\* C6: when a draft is confirmed but its date and time do not parse (an
\* empty time included), no record is added, no calendar event is created,
\* the draft is reset to IDLE and an error result is returned; so every
\* record of the ledger has a date and a time that parse.
UnparseableDraftNotCommitted ==
    [][/\ (/\ TurnTaken
           /\ state = AWAITING_CONFIRMATION
           /\ turn'.op = "confirmation"
           /\ turn'.decision = "confirmed"
           /\ ~DateTimeParses(Get(pending_meeting, "date", NoDate),
                              Get(pending_meeting, "time", NoTime)))
             => /\ ~CommitEffects
                /\ state' = IDLE
                /\ DraftIsEmpty'
                /\ result'.action = "error"
       /\ \A i \in 1..Len(meetings') :
            DateTimeParses(meetings'[i].date, meetings'[i].time)]_vars

\* A confirmed draft with a date and an empty time was aborted.
EmptyTimeAborted ==
    /\ result.action = "error"
    /\ turn.decision = "confirmed"
    /\ \E i \in CallsIn(trace, "strptime") :
         trace[i].arg[1] # NoDate /\ trace[i].arg[2] = NoTime

\* The contacts whose first name is Sam.
Sams == {c \in Range(contacts) : FirstToken(Lower(c.name)) = Lower(Sam)}

\* C7: with two contacts named Sam, one in Sales and one in Tech, a schedule
\* command whose only participant is the name Sam without department enters
\* AWAITING_DISAMBIGUATION with both contacts as the candidates for Sam.
SamAloneAsksWhichSam ==
    [][(/\ TurnTaken
        /\ state = IDLE
        /\ turn'.op = "start_scheduling"
        /\ Get(pending_meeting', "participants_raw", <<>>) = <<PSpec(Sam, <<>>, FALSE)>>
        /\ Cardinality(Sams) = 2
        /\ {c.department : c \in Sams} = {Sales, Tech})
          => /\ state' = AWAITING_DISAMBIGUATION
             /\ Sam \in DOMAIN disambiguation_context'
             /\ Range(disambiguation_context'[Sam].matches) = Sams]_vars

\* The reply's single spec identifies exactly the candidate c of the
\* disambiguation context.
Identifies(reply, c) ==
    /\ Len(reply) = 1
    /\ resolve_participant(contacts, reply[1].name, reply[1].department) = <<c>>
    /\ \E name \in DOMAIN disambiguation_context :
         c \in Range(disambiguation_context[name].matches)

\* C8: from AWAITING_DISAMBIGUATION entered for a name with several matches,
\* a reply whose spec identifies exactly one candidate leaves
\* AWAITING_DISAMBIGUATION with exactly that contact resolved.
ReplyEndsDisambiguation ==
    [][\A c \in Range(contacts) :
         (/\ TurnTaken
          /\ state = AWAITING_DISAMBIGUATION
          /\ turn'.op = "disambiguation"
          /\ \A name \in DOMAIN disambiguation_context :
               Len(disambiguation_context[name].matches) > 1
          /\ Identifies(turn'.reply, c))
            => /\ state' # AWAITING_DISAMBIGUATION
               /\ resolved_participants' = <<c>>]_vars

\* The contacts with the same full name as c.
Homonyms(c) == {d \in Range(contacts) : Lower(d.name) = Lower(c.name)}

\* C9: when several contacts have identical full names but different
\* departments, resolve_participant(first name, department) returns exactly
\* the contact(s) of that department: the homonym of the department is
\* returned, and nothing of another department.
DepartmentSelectsHomonym ==
    \A c \in Range(contacts) :
      (/\ call.fn = "resolve_participant"
       /\ Cardinality(Homonyms(c)) > 1
       /\ \A d, e \in Homonyms(c) : d # e => Lower(d.department) # Lower(e.department)
       /\ Lower(Strip(call.name)) = FirstToken(Lower(c.name))
       /\ Lower(Strip(call.department)) = Lower(c.department))
        => /\ c \in Range(call.ret)
           /\ \A d \in Range(call.ret) : Lower(d.department) = Lower(c.department)

\* The spec takes the name branch of the loop and its name has no match, or
\* several matches and no department.
Unresolved(p) ==
    /\ ~(p.is_department_group /\ p.department # <<>>)
    /\ \/ resolve_participant(contacts, p.name, p.department) = <<>>
       \/ /\ Len(resolve_participant(contacts, p.name, p.department)) > 1
          /\ p.department = <<>>

\* The contacts a spec that is not Unresolved stands for.
StandsFor(p) ==
    IF p.is_department_group /\ p.department # <<>>
    THEN Range(get_department_members(contacts, p.department))
    ELSE IF Unresolved(p) THEN {}
    ELSE Range(resolve_participant(contacts, p.name, p.department))

\* C10: for a list with at least one name that has no match, or several
\* matches and no department, _resolve_all_participants returns
\* needs_disambiguation = true, records each such name in
\* disambiguation_needed, and resolves no contact on behalf of those names.
UnresolvedNamesAreAsked ==
    (/\ call.fn = "resolve_all_participants"
     /\ \E i \in 1..Len(call.raw) : Unresolved(call.raw[i]))
      => /\ call.resolution.needs_disambiguation
         /\ \A i \in 1..Len(call.raw) :
              Unresolved(call.raw[i])
                => call.raw[i].name \in DOMAIN call.resolution.disambiguation_needed
         /\ Range(call.resolution.resolved)
              \subseteq UNION {StandsFor(call.raw[i]) : i \in 1..Len(call.raw)}

\* A list with an unresolved name and a resolved one was resolved.
MixedListAsked ==
    /\ call.fn = "resolve_all_participants"
    /\ \E i \in 1..Len(call.raw) :
         /\ Unresolved(call.raw[i])
         /\ Len(resolve_participant(contacts, call.raw[i].name,
                                    call.raw[i].department)) > 1
    /\ call.resolution.resolved # <<>>
    /\ call.resolution.needs_disambiguation

\* The draft after a command that named one participant, which the
\* directory resolves to one contact, and gave the date, 14:00 and no
\* duration (no command gives 45 minutes, so a draft with 0 or 45 was given
\* none) and no title.
OneParticipantTwoPmNoDuration(pm, book) ==
    /\ Len(Get(pm, "participants_raw", <<>>)) = 1
    /\ ~pm.participants_raw[1].is_department_group
    /\ Len(resolve_participant(book, pm.participants_raw[1].name,
                               pm.participants_raw[1].department)) = 1
    /\ pm.date = Tuesday
    /\ pm.time = TwoPm
    /\ ~pm.use_first_available
    /\ pm.duration_minutes \in {0, DEFAULT_MEETING_DURATION_MINUTES}
    /\ pm.title.text \in {"", "Meeting with"}

\* C11: a schedule command from IDLE whose single participant resolves
\* uniquely and whose fields give a date and 14:00 but no duration takes the
\* dialogue to AWAITING_CONFIRMATION with that date, 14:00, duration 45 and a
\* title generated from the participant.
DatedCommandReachesConfirmation ==
    [][(/\ TurnTaken
        /\ state = IDLE
        /\ turn'.op = "start_scheduling"
        /\ OneParticipantTwoPmNoDuration(pending_meeting', contacts))
          => /\ state' = AWAITING_CONFIRMATION
             /\ pending_meeting'.date = Tuesday
             /\ pending_meeting'.time = TwoPm
             /\ pending_meeting'.duration_minutes = DEFAULT_MEETING_DURATION_MINUTES
             /\ pending_meeting'.title =
                  [text |-> "Meeting with", with |-> Names(resolved_participants')]]_vars

\* The minutes of the day that a meeting occupies: from its start up to,
\* and without, the minute it ends; 45 minutes when its duration is unset.
Occupied(time, duration_minutes) ==
    { time.h * 60 + time.m + k :
        k \in 0..((IF duration_minutes = 0 THEN DEFAULT_MEETING_DURATION_MINUTES
                   ELSE duration_minutes) - 1) }

\* The records a candidate slot is compared with: those the requester sees
\* that are not cancelled, not excluded, well-formed and of the slot's day.
ComparedWith(slot, exclude_meeting_id) ==
    { m \in Range(store_meetings(Self)) :
        /\ m.status # "cancelled"
        /\ m.id # exclude_meeting_id
        /\ DateTimeParses(m.date, m.time)
        /\ m.date = slot.date }

\* C12: get_conflicting_meetings reports a meeting of the candidate's day
\* exactly when the half-open intervals [start, start + duration) of the two
\* share a minute, so a candidate that starts when the meeting ends, or ends
\* when it starts, is not reported and one that overlaps it in part is.
ConflictsAreHalfOpenOverlaps ==
    (/\ store_call.fn = "get_conflicting_meetings"
     /\ DateTimeParses(store_call.arg.date, store_call.arg.time))
      => \A m \in ComparedWith(store_call.arg, store_call.meeting_id) :
           m \in Range(store_call.ret)
             <=> Occupied(store_call.arg.time, store_call.arg.duration_minutes)
                   \cap Occupied(m.time, m.duration_minutes) # {}

\* The slot 14:30-15:00 was compared with a meeting that ends at 14:30, which
\* was not reported, and with one that ends after 14:30, which was.
TouchingSlotNotReported ==
    /\ store_call.fn = "get_conflicting_meetings"
    /\ store_call.arg = Candidate(Tuesday, [h |-> 14, m |-> 30], 30)
    /\ \E m \in ComparedWith(store_call.arg, store_call.meeting_id) :
         /\ m.time = TwoPm /\ m.duration_minutes = 30
         /\ m \notin Range(store_call.ret)
    /\ \E m \in ComparedWith(store_call.arg, store_call.meeting_id) :
         /\ m.time = [h |-> 14, m |-> 20]
         /\ m \in Range(store_call.ret)

\* C13: for every ledger and every requester (ordinary user, user without
\* identity, admin), every meeting that get_conflicting_meetings returns has
\* the requester as its owner, is not cancelled and is not the excluded id.
ConflictsAreOwnLiveMeetings ==
    store_call.fn = "get_conflicting_meetings"
      => \A m \in Range(store_call.ret) :
           /\ m.user_email = user_email
           /\ m.status # "cancelled"
           /\ m.id # store_call.meeting_id

\* The record of the ledger with that id (NoMeeting: none).
RecordOf(records, meeting_id) ==
    IF IndexOfId(records, meeting_id) = 0 THEN NoMeeting
    ELSE records[IndexOfId(records, meeting_id)]

\* The requester may modify the record with that id.
Authorised(meeting_id) ==
    /\ RecordOf(meetings, meeting_id) # NoMeeting
    /\ is_admin \/ RecordOf(meetings, meeting_id).user_email = user_email

\* This step is a call of fn on the id that returned (the file was written).
CallReturns(fn, meeting_id) ==
    /\ store_call'.n = store_call.n + 1
    /\ store_call'.fn = fn
    /\ store_call'.meeting_id = meeting_id
    /\ ~store_call'.raised

\* C14: cancel_meeting by an authorised requester leaves the record with
\* status "cancelled" and returns the record; called again on the same id it
\* does the same and leaves the ledger, in memory and in the file, as the
\* first call left it.
CancelIsIdempotent ==
    [][\A meeting_id \in CallIds :
         (CallReturns("cancel_meeting", meeting_id) /\ Authorised(meeting_id))
           => /\ RecordOf(meetings', meeting_id).status = "cancelled"
              /\ store_call'.ret = RecordOf(meetings', meeting_id)
              /\ store_call'.prev = <<"cancel_meeting", meeting_id>>
                   => /\ meetings' = meetings
                      /\ threads' = threads
                      /\ disk' = disk]_vars

\* A meeting was cancelled twice in a row and both calls returned its record.
CancelledTwice ==
    /\ store_call.fn = "cancel_meeting"
    /\ store_call.prev = <<"cancel_meeting", store_call.meeting_id>>
    /\ store_call.ret # NoMeeting
    /\ store_call.ret = RecordOf(meetings, store_call.meeting_id)
    /\ store_call.ret.status = "cancelled"

\* C16: after any sequence of add_meeting, update_meeting, cancel_meeting
\* and delete_meeting calls, every thread of the index lists at least one
\* meeting id, lists no id twice, and lists only ids of records that are in
\* the ledger.
ThreadIndexIsSound ==
    \A t \in DOMAIN threads :
      /\ threads[t] # <<>>
      /\ \A i, j \in 1..Len(threads[t]) : threads[t][i] = threads[t][j] => i = j
      /\ \A i \in 1..Len(threads[t]) : IndexOfId(meetings, threads[t][i]) # 0

\* Bob's meeting, the only one of its thread, was deleted and the thread
\* left the index, which still holds a thread extended by add_meeting.
EmptiedThreadRemoved ==
    /\ store_call.fn = "delete_meeting"
    /\ store_call.meeting_id = <<"mtg", 2>>
    /\ ~store_call.raised
    /\ store_call.ret = TRUE
    /\ store_call.prev[1] = "add_meeting"
    /\ <<"thread", 2>> \notin DOMAIN threads
    /\ \E t \in DOMAIN threads : Len(threads[t]) > 1

\* C20: update_meeting and delete_meeting called on a record by a requester
\* who is neither its owner nor admin return what they return for an id that
\* no record has (None, False) and leave the records, the thread index and
\* the file unchanged.
ForeignMeetingLooksMissing ==
    [][\A meeting_id \in CallIds :
         (/\ store_call'.n = store_call.n + 1
          /\ store_call'.fn \in {"update_meeting", "delete_meeting"}
          /\ store_call'.meeting_id = meeting_id
          /\ RecordOf(meetings, meeting_id) # NoMeeting
          /\ ~Authorised(meeting_id))
           => /\ ~store_call'.raised
              /\ store_call'.ret =
                   (IF store_call'.fn = "update_meeting"
                    THEN update_meeting(Self, MISSING_ID, store_call'.arg, TRUE).ret
                    ELSE delete_meeting(Self, MISSING_ID, TRUE).ret)
              /\ meetings' = meetings
              /\ threads' = threads
              /\ disk' = disk]_vars

\* Alice's store was asked to update and then to delete Bob's meeting, which
\* is still in the ledger.
ForeignMeetingRefused ==
    /\ user_email = STORE_USER
    /\ ~is_admin
    /\ store_call.prev = <<"update_meeting", <<"mtg", 2>>>>
    /\ store_call.fn = "delete_meeting"
    /\ store_call.meeting_id = <<"mtg", 2>>
    /\ ~store_call.raised
    /\ store_call.ret = FALSE
    /\ RecordOf(meetings, <<"mtg", 2>>) # NoMeeting
    /\ RecordOf(meetings, <<"mtg", 2>>).user_email = BOB

\* The lists pair every participant with an email of a contact of that name.
EmailsFollowParticipants(m) ==
    /\ Len(m.participants) = Len(m.participant_emails)
    /\ \A i \in 1..Len(m.participants) :
         \E c \in ContactPool :
           c.name = m.participants[i] /\ c.email = m.participant_emails[i]

\* C17: every record the dialogue writes (by commit, add-attendees or
\* remove-attendees) has participants and participant_emails of equal
\* length, the i-th email being that of the i-th participant, whatever the
\* directory holds, contacts without email included.
RecordsPairParticipantsAndEmails ==
    \A i \in 1..Len(meetings) : EmailsFollowParticipants(meetings[i])

\* The scheduled meeting that the remove-attendees command c is about.
RemovalTarget(c) ==
    find_meeting_by_participant_hints(HintNames(c.details.meeting_ref_participants),
                                      Scheduled(Self))

\* The command names people to remove, and none of the names is part of the
\* name of a participant of the meeting.
RemovesNobody(c, meeting) ==
    /\ HintNames(c.details.participants) # <<>>
    /\ \A i \in 1..Len(meeting.participants) :
       \A j \in 1..Len(c.details.participants) :
         ~Contains(Lower(Strip(c.details.participants[j].name)),
                   Lower(meeting.participants[i]))

CalendarCalls(tr) ==
    CallsIn(tr, "create_event") \cup CallsIn(tr, "update_event")
      \cup CallsIn(tr, "update_event_attendees")

\* C19: a remove-attendees command whose names match no participant of the
\* matched meeting is not answered with "attendees_updated", makes no
\* calendar call and leaves the ledger as it was; a removal is accepted only
\* when the meeting ends with fewer participants than it had.
RemovalMustShrink ==
    [][(TurnTaken /\ turn'.intent = "remove_attendees_from_meeting")
         => /\ (/\ RemovalTarget(CommandOf(turn')) # NoMeeting
                /\ RemovesNobody(CommandOf(turn'), RemovalTarget(CommandOf(turn'))))
                  => /\ result'.action # "attendees_updated"
                     /\ CalendarCalls(trace') = {}
                     /\ meetings' = meetings
            /\ result'.action = "attendees_updated"
                 => /\ RemovalTarget(CommandOf(turn')) # NoMeeting
                    /\ Len(RecordOf(meetings', RemovalTarget(CommandOf(turn')).id).participants)
                         < Len(RemovalTarget(CommandOf(turn')).participants)]_vars

\* Zed, who is on no meeting, was to be removed from a scheduled meeting.
RemovalOfStrangerRefused ==
    /\ turn.intent = "remove_attendees_from_meeting"
    /\ RemovalTarget(CommandOf(turn)) # NoMeeting
    /\ RemovesNobody(CommandOf(turn), RemovalTarget(CommandOf(turn)))
    /\ result.action = "chat"
    /\ result.message = "could not match those names to current attendees"

\* The turn left the cancelled record m and its calendar event alone: the
\* record and the event are what they were, and no update_meeting on its id
\* and no update-event on its event was called.
LeftAlone(m) ==
    /\ RecordOf(meetings', m.id) = m
    /\ RecordOf(calendar_events', m.calendar_event_id)
         = RecordOf(calendar_events, m.calendar_event_id)
    /\ \A k \in CallsIn(trace', "update_meeting") : trace'[k].arg # m.id
    /\ \A k \in CallsIn(trace', "update_event") : trace'[k].arg # m.calendar_event_id

\* C18: once a record has status "cancelled", no reschedule, add-attendees
\* or remove-attendees command changes it or its calendar event, and the
\* create-event, update-event and update-attendees calls of such a command
\* are made for a meeting that is scheduled, which the command then updates.
CancelledMeetingsAreLeftAlone ==
    [][(TurnTaken /\ turn'.intent \in MODIFICATION_INTENTS)
         => /\ \A i \in 1..Len(meetings) :
                 meetings[i].status = "cancelled" => LeftAlone(meetings[i])
            /\ CalendarCalls(trace') # {}
                 => \E k \in CallsIn(trace', "update_meeting") :
                      /\ RecordOf(meetings, trace'[k].arg) # NoMeeting
                      /\ RecordOf(meetings, trace'[k].arg).status = "scheduled"]_vars

\* A command named a participant of a cancelled meeting (Sam) while another
\* meeting was scheduled, and was told that no scheduled meeting matches.
CancelledMeetingNotMatched ==
    /\ turn.intent \in MODIFICATION_INTENTS
    /\ result.message = "no scheduled meeting matching that"
    /\ \E i \in 1..Len(meetings) :
         /\ meetings[i].status = "cancelled"
         /\ MatchesHints(meetings[i],
                HintNames(CommandOf(turn).details.meeting_ref_participants))
    /\ \E i \in 1..Len(meetings) : meetings[i].status = "scheduled"

\* The store as the turn left it.
StoreAfter == [Self EXCEPT !.meetings = meetings', !.threads = threads']

\* C15: a follow-up of a meeting X of the ledger is recorded in X's thread
\* (no new thread is created), and get_thread_meetings for that thread
\* returns X and the follow-up, the earlier first; so it is for the record
\* that the dialogue's commit of a draft with is_followup set creates.
FollowupJoinsParentThread ==
    [][(/\ TurnTaken
        /\ turn'.decision = "confirmed"
        /\ Get(pending_meeting, "is_followup", FALSE)
        /\ meetings # <<>>
        /\ Len(meetings') = Len(meetings) + 1)
          => \E i \in 1..Len(meetings) :
               /\ meetings'[Len(meetings')].thread_id = meetings[i].thread_id
               /\ \E j, k \in 1..Len(get_thread_meetings(StoreAfter,
                                                         meetings[i].thread_id)) :
                    /\ j < k
                    /\ get_thread_meetings(StoreAfter, meetings[i].thread_id)[j]
                         = meetings[i]
                    /\ get_thread_meetings(StoreAfter, meetings[i].thread_id)[k]
                         = meetings'[Len(meetings')]]_vars

\* The file holds what the store holds in memory.
FileIsCurrent == disk = [meetings |-> meetings, threads |-> threads]

\* C21: when the save of the ledger fails during a commit, process_message
\* raises instead of returning: the turn does not return action "scheduled",
\* and every turn that returns "scheduled" has added the record and written
\* it to the file.
SaveFailureSurfaces ==
    [][(TurnTaken /\ turn'.decision = "confirmed")
         => /\ (CallsIn(trace', "add_meeting") # {} /\ ~FileIsCurrent')
                 => (result' = Raised /\ result'.action # "scheduled")
            /\ result'.action = "scheduled"
                 => (CallsIn(trace', "add_meeting") # {} /\ FileIsCurrent')]_vars

\* The save of a commit failed: the record is in memory, not in the file,
\* and the turn raised.
CommitSaveFailed ==
    /\ turn.decision = "confirmed"
    /\ CallsIn(trace, "add_meeting") # {}
    /\ Len(meetings) > Len(disk.meetings)
    /\ result = Raised

\* The contacts of the directory at the positions that satisfy a test, in
\* the directory's order.
ContactsAt(ab, positions) == SelectSeq(ab, LAMBDA c : \E i \in positions : ab[i] = c)

ExactAt(ab, name) == {i \in 1..Len(ab) : Lower(ab[i].name) = Lower(Strip(name))}

FirstNameAt(ab, name) ==
    {i \in 1..Len(ab) : FirstToken(Lower(ab[i].name)) = Lower(Strip(name))}

SubstringAt(ab, name) ==
    {i \in 1..Len(ab) : Contains(Lower(Strip(name)), Lower(ab[i].name))}

InDepartment(ab, positions, department) ==
    {i \in positions : Lower(ab[i].department) = Lower(Strip(department))}

\* The tiered resolution: (a) the exact full-name match; (b) the first-name
\* matches of the department; (c) the only first-name match; (d) the
\* substring matches of the department; (e) the substring matches, else the
\* first-name matches.
TieredResolution(ab, name, department) ==
    IF ExactAt(ab, name) # {}
    THEN <<ab[CHOOSE i \in ExactAt(ab, name) : \A j \in ExactAt(ab, name) : i <= j]>>
    ELSE IF department # <<>> /\ InDepartment(ab, FirstNameAt(ab, name), department) # {}
    THEN ContactsAt(ab, InDepartment(ab, FirstNameAt(ab, name), department))
    ELSE IF Cardinality(FirstNameAt(ab, name)) = 1
    THEN ContactsAt(ab, FirstNameAt(ab, name))
    ELSE IF department # <<>> /\ InDepartment(ab, SubstringAt(ab, name), department) # {}
    THEN ContactsAt(ab, InDepartment(ab, SubstringAt(ab, name), department))
    ELSE IF SubstringAt(ab, name) # {} THEN ContactsAt(ab, SubstringAt(ab, name))
    ELSE ContactsAt(ab, FirstNameAt(ab, name))

\* C22: for every directory and every name and department,
\* resolve_participant returns what the tiered resolution (a)-(e) gives.
ResolutionIsTiered ==
    call.fn = "resolve_participant"
      => call.ret = TieredResolution(contacts, call.name, call.department)

\* The value of a draft field, and the value of a field that has none.
DraftValue(pm, field) ==
    CASE field = "date" -> Get(pm, "date", NoDate)
      [] field = "time" -> Get(pm, "time", NoTime)
      [] field = "duration_minutes" -> Get(pm, "duration_minutes", 0)
      [] field = "participants_raw" -> Get(pm, "participants_raw", <<>>)
      [] field = "title" -> Get(pm, "title", NoTitle)

DraftFields == {"date", "time", "duration_minutes", "participants_raw", "title"}

HasValue(pm, field) == DraftValue(pm, field) # DraftValue(EmptyDict, field)

\* C23: a reply in COLLECTING_INFO leaves every draft field that already had
\* a value as it was, through the merge, the direct patterns and the slot
\* finding of the turn.
FilledDraftFieldsKept ==
    [][(TurnTaken /\ turn'.op = "info_collection")
         => \A field \in DraftFields :
              HasValue(pending_meeting, field)
                => DraftValue(pending_meeting', field)
                     = DraftValue(pending_meeting, field)]_vars

\* C24: in AWAITING_CONFIRMATION the draft has a date, a time, a positive
\* duration and at least one resolved participant.
ConfirmationHasRequiredFields ==
    state = AWAITING_CONFIRMATION
      => /\ HasValue(pending_meeting, "date")
         /\ HasValue(pending_meeting, "time")
         /\ DraftValue(pending_meeting, "duration_minutes") > 0
         /\ resolved_participants # <<>>

\* The turn resolved participant names for the draft: a fresh command, or a
\* reply in COLLECTING_INFO whose names became the draft's.
NamesResolvedInTurn ==
    /\ TurnTaken
    /\ \/ turn'.op = "start_scheduling"
       \/ /\ turn'.op = "info_collection"
          /\ DraftValue(pending_meeting', "participants_raw")
               # DraftValue(pending_meeting, "participants_raw")

\* C25: a turn that resolves participant names and leaves one of them
\* unresolved ends in AWAITING_DISAMBIGUATION, never in a confirmation.
UnresolvedNameIsDisambiguated ==
    [][(/\ NamesResolvedInTurn
        /\ resolve_all_participants(
               contacts, DraftValue(pending_meeting', "participants_raw")
           ).needs_disambiguation)
         => state' = AWAITING_DISAMBIGUATION]_vars

\* What _start_scheduling does, from its "Step 2" on, with the draft and the
\* participants a disambiguation turn ends with.
FreshContinuation(slot) ==
    AfterResolution(
        [Self EXCEPT !.pending_meeting =
                         [pending_meeting EXCEPT !.participants_raw =
                              DraftValue(pending_meeting', "participants_raw")],
                     !.resolved_participants = resolved_participants'],
        slot)

\* C26: a disambiguation reply that resolves every participant continues as
\* a fresh command does for the same draft: the missing fields are asked
\* for, or the first available slot becomes the draft time, or the
\* confirmation is presented.
DisambiguationContinuesAsFresh ==
    [][(TurnTaken /\ turn'.op = "disambiguation" /\ state' # AWAITING_DISAMBIGUATION)
         => \E slot \in SlotAnswers(Get(pending_meeting, "use_first_available", FALSE)) :
              /\ state' = FreshContinuation(slot).state
              /\ pending_meeting' = FreshContinuation(slot).pending_meeting
              /\ missing_fields' = FreshContinuation(slot).missing_fields
              /\ result'.action = FreshContinuation(slot).result.action]_vars

\* The turn of a reply classified "modification" at the confirmation.
ModificationTurn(reply, llm, slot) ==
    /\ state = AWAITING_CONFIRMATION
    /\ classify_confirmation(reply.text, llm) = "modification"
    /\ Turn([NoInput EXCEPT !.text = reply.text, !.llm = llm, !.slot = slot,
                            !.parsed.meeting_details = reply.details],
            [NoTurn EXCEPT !.op = "confirmation", !.decision = "modification"])

\* C27: a reply classified "modification" is processed as new information:
\* the date, time or duration the parser extracts from it is the one of the
\* draft at the confirmation that follows.
ModificationTakesEffect ==
    [][\A reply \in Replies, llm \in LlmAnswers, slot \in Slots :
         (ModificationTurn(reply, llm, slot) /\ state' = AWAITING_CONFIRMATION)
           => /\ reply.details.date # NoDate
                   => DraftValue(pending_meeting', "date") = reply.details.date
              /\ reply.details.time # NoTime
                   => DraftValue(pending_meeting', "time") = reply.details.time
              /\ reply.details.duration_minutes # 0
                   => DraftValue(pending_meeting', "duration_minutes")
                        = reply.details.duration_minutes]_vars

\* The messages a user can send, with what the parser, the classifier and
\* the calendar answer for them: commands that start a draft, replies
\* inside a flow, and the other commands.
UserMessages ==
    { [NoInput EXCEPT !.quick = [intent |-> "schedule_meeting", meeting_details |-> details],
                      !.slot = slot] :
        details \in CommandDetails, slot \in Slots }
    \cup { [NoInput EXCEPT !.text = reply.text, !.llm = llm, !.slot = slot,
                           !.parsed.meeting_details = reply.details,
                           !.cal_ok = TRUE, !.save_ok = TRUE] :
             reply \in Replies, llm \in LlmAnswers, slot \in Slots }
    \cup { CommandInput(c, Outcome(TRUE, TRUE, TRUE, TRUE, TRUE)) :
             c \in IdleCommands \cup SwitchCommands }

\* The longest sequence of messages tried from the state after construction.
MaxMessages == 2

RECURSIVE ReachesSlotChoice(_, _)
ReachesSlotChoice(w, n) ==
    \/ w.state = AWAITING_SLOT_CHOICE
    \/ /\ n > 0
       /\ \E in \in UserMessages :
            ReachesSlotChoice([process_message(w, in) EXCEPT !.result = NoResult,
                                                            !.trace = <<>>],
                              n - 1)

\* C28: some sequence of user messages takes the dialogue from IDLE, as
\* constructed, to AWAITING_SLOT_CHOICE, where a reply with a time leads to
\* the confirmation and a reply without one re-prompts.
SlotChoiceIsReached ==
    (history_len = 0 /\ edits = 0) => ReachesSlotChoice(Self, MaxMessages)

\* The dialogue is never in AWAITING_SLOT_CHOICE.
SlotChoiceNeverEntered == state # AWAITING_SLOT_CHOICE

(***************************************************************************)
(* Slot Finder: src/calendar_service.py.  The calendar's events are busy    *)
(* periods, a start and an end in minutes of the calendar's clock.         *)
(***************************************************************************)

WORKING_HOURS_START == 9
WORKING_HOURS_END == 18
SLOT_INCREMENT_MINUTES == 30

\* strftime("%H:%M") of a minute of the clock.
ClockTime(minute) == [h |-> (minute % 1440) \div 60, m |-> minute % 60]

\* A slot is free when its closed interval meets no busy period.
IsAvailableClosed(current_time, slot_end, events) ==
    \A i \in 1..Len(events) :
        ~(current_time <= events[i].end /\ slot_end >= events[i].start)

\* The inner loop of check_availability: no event overlaps the slot.
IsAvailable(current_time, slot_end, events) ==
    \A i \in 1..Len(events) :
        ~(current_time < events[i].end /\ slot_end > events[i].start)

\* The while loop of check_availability, from current_time on.
RECURSIVE ScanSlots(_, _, _, _)
ScanSlots(current_time, day_end, duration_minutes, events) ==
    IF current_time + duration_minutes > day_end THEN <<>>
    ELSE LET slot_end == current_time + duration_minutes
         IN  (IF IsAvailable(current_time, slot_end, events)
              THEN <<[start |-> ClockTime(current_time), end |-> ClockTime(slot_end),
                      start_datetime |-> current_time]>>
              ELSE <<>>)
             \o ScanSlots(current_time + SLOT_INCREMENT_MINUTES, day_end,
                          duration_minutes, events)

\* MockCalendarService.check_availability (CalendarService.check_availability
\* runs the same loop on the busy periods of the free/busy query).
check_availability(events, date, duration_minutes) ==
    ScanSlots(Minutes(date, [h |-> WORKING_HOURS_START, m |-> 0]),
              Minutes(date, [h |-> WORKING_HOURS_END, m |-> 0]),
              duration_minutes, events)

\* find_first_available_slot: the first slot, or None.
find_first_available_slot(events, date, duration_minutes) ==
    LET slots == check_availability(events, date, duration_minutes)
    IN  IF slots # <<>> THEN slots[1] ELSE NoSlot

\* The most events a calendar of the slot runs holds.
MaxBusy == 2

Busy(date, from, to) == [start |-> Minutes(date, from), end |-> Minutes(date, to)]

\* Busy periods around Tuesday's working hours: on the slot grid and off
\* it, across the start and the end of the day, over a whole afternoon, and
\* on the day after.
BusyPool ==
    { Busy(Tuesday, [h |-> 8, m |-> 0], [h |-> 9, m |-> 30]),
      Busy(Tuesday, [h |-> 9, m |-> 15], [h |-> 10, m |-> 0]),
      Busy(Tuesday, [h |-> 10, m |-> 0], [h |-> 10, m |-> 20]),
      Busy(Tuesday, [h |-> 12, m |-> 0], [h |-> 17, m |-> 30]),
      Busy(Tuesday, [h |-> 17, m |-> 45], [h |-> 19, m |-> 0]),
      Busy(Wednesday, [h |-> 9, m |-> 0], [h |-> 18, m |-> 0]) }

BusyCalendars == Arrangements(BusyPool, MaxBusy)

SlotDates == {Tuesday, Wednesday}

SlotDurations == {20, 30, 45, 60, 540, 570}

InitSlots ==
    /\ contacts = <<>>
    /\ user_email = STORE_USER
    /\ is_admin = FALSE
    /\ state = IDLE
    /\ pending_meeting = EmptyDict
    /\ resolved_participants = <<>>
    /\ missing_fields = <<>>
    /\ disambiguation_context = EmptyDict
    /\ history_len = 0
    /\ meetings = <<>>
    /\ threads = EmptyDict
    /\ disk = [meetings |-> <<>>, threads |-> EmptyDict]
    /\ uuid_n = 0
    /\ calendar_events \in BusyCalendars
    /\ result = NoResult
    /\ trace = <<>>
    /\ turn = NoTurn
    /\ draft_effects = NoEffects
    /\ book_disk = contacts
    /\ edits = 0
    /\ call = NoCall
    /\ store_call = NoStoreCall

SlotCall(fn, date, duration_minutes, ret) ==
    [fn |-> fn, date |-> date, duration_minutes |-> duration_minutes, ret |-> ret]

\* check_availability(date, duration_minutes) is called.
CallCheckAvailability ==
    /\ call = NoCall
    /\ \E date \in SlotDates, duration_minutes \in SlotDurations :
         call' = SlotCall("check_availability", date, duration_minutes,
                          check_availability(calendar_events, date, duration_minutes))
    /\ Untouched

\* find_first_available_slot(target_date, duration_minutes) is called.
CallFindFirstAvailableSlot ==
    /\ call = NoCall
    /\ \E date \in SlotDates, duration_minutes \in SlotDurations :
         call' = SlotCall("find_first_available_slot", date, duration_minutes,
                          find_first_available_slot(calendar_events, date,
                                                    duration_minutes))
    /\ Untouched

NextSlots == CallCheckAvailability \/ CallFindFirstAvailableSlot

SpecSlots == InitSlots /\ [][NextSlots]_vars

\* The candidate starts of a day for a duration: on the half-hour grid from
\* the start of the working hours, ending within them.
CandidateStarts(date, duration_minutes) ==
    LET day_start == Minutes(date, [h |-> 9, m |-> 0])
        day_end == Minutes(date, [h |-> 18, m |-> 0])
    IN  {start \in day_start..day_end :
           /\ (start - day_start) % 30 = 0
           /\ start + duration_minutes <= day_end}

\* No minute of [start, start + duration) is a minute of a busy period.
FreeOf(events, start, duration_minutes) ==
    \A busy \in Range(events) :
        {t \in start..(start + duration_minutes - 1) :
           busy.start <= t /\ t < busy.end} = {}

FreeStarts(events, date, duration_minutes) ==
    {start \in CandidateStarts(date, duration_minutes) :
       FreeOf(events, start, duration_minutes)}

\* C29: check_availability returns exactly the candidates of the half-hour
\* grid that end within the working hours and overlap no busy period, in
\* chronological order, and find_first_available_slot the earliest of them,
\* or none.
SlotsAreTheFreeCandidates ==
    LET free == FreeStarts(calendar_events, call.date, call.duration_minutes)
        slots == call.ret
    IN  /\ call.fn = "check_availability"
          => /\ {slots[i].start_datetime : i \in 1..Len(slots)} = free
             /\ \A i, j \in 1..Len(slots) :
                  i < j => slots[i].start_datetime < slots[j].start_datetime
             /\ \A i \in 1..Len(slots) :
                  /\ Minutes(call.date, slots[i].start) = slots[i].start_datetime
                  /\ Minutes(call.date, slots[i].end)
                       = slots[i].start_datetime + call.duration_minutes
        /\ call.fn = "find_first_available_slot"
          => IF free = {} THEN slots = NoSlot
             ELSE /\ slots # NoSlot
                  /\ \A start \in free : slots.start_datetime <= start
                  /\ slots.start_datetime \in free
                  /\ Minutes(call.date, slots.start) = slots.start_datetime

\* A slot was returned that starts when a busy period ends, and a candidate
\* was left out.
SlotAfterBusyPeriod ==
    /\ call.fn = "check_availability"
    /\ \E i \in 1..Len(call.ret), busy \in Range(calendar_events) :
         call.ret[i].start_datetime = busy.end
    /\ Len(call.ret) < Cardinality(CandidateStarts(call.date, call.duration_minutes))

NotificationCalls(tr) ==
    CallsIn(tr, "send_meeting_invite_notification")
      \cup CallsIn(tr, "send_meeting_invite_to_participants")

\* The record the commit of the draft adds to the ledger.
DraftRecordAdded ==
    /\ Len(meetings') = Len(meetings) + 1
    /\ SubSeq(meetings', 1, Len(meetings)) = meetings
    /\ meetings'[Len(meetings')].title = pending_meeting["title"]
    /\ meetings'[Len(meetings')].date = DraftValue(pending_meeting, "date")
    /\ meetings'[Len(meetings')].time = DraftValue(pending_meeting, "time")
    /\ meetings'[Len(meetings')].participants = Names(resolved_participants)
    /\ meetings'[Len(meetings')].status = "scheduled"
    /\ disk'.meetings = meetings'

\* C30: in a commit the calendar event is created first, then the meeting
\* is added to the ledger, then the notifications are sent, then the
\* dialogue is reset; a notification that fails leaves the added record as
\* it is, and the turn ends in IDLE with action "scheduled".
CommitOrderAndNotificationFailure ==
    [][(TurnTaken /\ turn'.decision = "confirmed")
         => /\ \A c \in CallsIn(trace', "create_event"),
                 a \in CallsIn(trace', "add_meeting") : c < a
            /\ \A n \in NotificationCalls(trace') :
                 /\ CallsIn(trace', "create_event") # {}
                 /\ \A a \in CallsIn(trace', "add_meeting") : a < n
                 /\ CallsIn(trace', "add_meeting") # {}
                 /\ trace'[n].arg # <<>>
            /\ result'.action = "scheduled"
                 => /\ CallsIn(trace', "create_event") # {}
                    /\ CallsIn(trace', "add_meeting") # {}
                    /\ state' = IDLE
                    /\ pending_meeting' = EmptyDict
            /\ (\E n \in NotificationCalls(trace') : ~trace'[n].success)
                 => /\ DraftRecordAdded
                    /\ state' = IDLE
                    /\ result'.action = "scheduled"]_vars

\* A commit whose notification failed.
NotificationFailedInCommit ==
    /\ turn.decision = "confirmed"
    /\ \E n \in NotificationCalls(trace) : ~trace[n].success
    /\ result.action = "scheduled"
    /\ meetings # <<>>

(***************************************************************************)
(* A ledger file shared by several owners, read by a manager that was      *)
(* built with or without an identity (MeetingStore(filepath, user_email)). *)
(***************************************************************************)

\* Bob's scheduled meeting with Sam Roy, created after Alice's earlier one.
ForeignMeeting ==
    [EarlierMeeting("scheduled")
       EXCEPT !.id = <<"mtg", 4>>, !.thread_id = <<"thread", 4>>,
              !.user_email = BOB, !.participants = <<SamRoy>>,
              !.participant_emails = <<"roy@office">>,
              !.calendar_event_id = <<"evt", 4>>, !.created_at = 4]

\* Alice's meeting with Sam that was held (app.py sets status "completed"
\* when the minutes are stored).
CompletedMeeting ==
    [EarlierMeeting("completed")
       EXCEPT !.id = <<"mtg", 5>>, !.thread_id = <<"thread", 5>>,
              !.participants = <<Sam>>, !.calendar_event_id = NoId,
              !.created_at = 5]

\* Alice's scheduled meeting with Sam Roy, her latest.
TeamMeeting ==
    [ForeignMeeting
       EXCEPT !.id = <<"mtg", 6>>, !.thread_id = <<"thread", 6>>,
              !.user_email = STORE_USER, !.calendar_event_id = <<"evt", 6>>,
              !.duration_minutes = 60, !.created_at = 6]

\* The calendar event of a seeded record.
EventOf(m) ==
    [id |-> m.calendar_event_id, title |-> m.title, date |-> m.date,
     time |-> m.time, duration_minutes |-> m.duration_minutes,
     attendees |-> m.participant_emails]

\* The same meeting as written when Sam Roy's address had a capital.
TeamMeetingAsFirstSpelled ==
    [TeamMeeting EXCEPT !.participant_emails = <<"Roy@office">>]

SharedLedgers ==
    { <<EarlierMeeting("scheduled"), ForeignMeeting>>,
      <<EarlierMeeting("scheduled"), CompletedMeeting>>,
      <<EarlierMeeting("scheduled"), TeamMeeting>>,
      <<EarlierMeeting("scheduled"), TeamMeetingAsFirstSpelled>>,
      <<ForeignMeeting>> }

InitShared ==
    /\ contacts = <<PoolContact("c1"), PoolContact("c2"), PoolContact("c4"),
                    PoolContact("c5")>>
    /\ user_email \in {STORE_USER, ""}
    /\ is_admin = FALSE
    /\ state = IDLE
    /\ pending_meeting = EmptyDict
    /\ resolved_participants = <<>>
    /\ missing_fields = <<>>
    /\ disambiguation_context = EmptyDict
    /\ history_len = 1
    /\ meetings \in SharedLedgers
    /\ threads = ThreadIndex(meetings)
    /\ disk = [meetings |-> meetings, threads |-> threads]
    /\ uuid_n = 6
    /\ calendar_events = <<EarlierEvent, EventOf(ForeignMeeting), EventOf(TeamMeeting)>>
    /\ result = NoResult
    /\ trace = <<>>
    /\ turn = NoTurn
    /\ draft_effects = NoEffects
    /\ book_disk = contacts
    /\ edits = 0
    /\ call = NoCall
    /\ store_call = NoStoreCall

NextShared == OtherCommand

SpecShared == InitShared /\ [][NextShared]_vars

\* The names a command gives to find its meeting: hint_names of
\* _handle_reschedule, ref_names of the two attendee handlers.
CommandHints(c) ==
    IF c.intent = "reschedule_meeting" THEN RescheduleHints(c.details)
    ELSE IF c.intent = "add_attendees_to_meeting" THEN AddRefNames(c.details, c.text)
    ELSE HintNames(c.details.meeting_ref_participants)

\* The requester's own meetings that are not cancelled and have a
\* participant whose name contains a hint.
OwnMatches(hint_names) ==
    { m \in Range(meetings) :
        /\ m.user_email = user_email
        /\ m.status \in {"scheduled", "completed"}
        /\ MatchesHints(m, hint_names) }

\* The command succeeded on the record m: it wrote m in the ledger, and
\* every event the calendar was asked to patch is m's.
ActedOn(m) ==
    /\ \E k \in CallsIn(trace', "update_meeting") : trace'[k].arg = m.id
    /\ \A k \in CallsIn(trace', "update_event") : trace'[k].arg = m.calendar_event_id

SUCCESS_ACTIONS == {"rescheduled", "attendees_updated"}

\* C31: a reschedule, add-attendees or remove-attendees command that names
\* its meeting and succeeds has acted on one of the requester's own
\* scheduled or completed meetings with a participant whose name contains a
\* hint, the most recently created of them; never on another owner's.
TargetIsLatestOwnMatch ==
    [][(/\ TurnTaken
        /\ turn'.intent \in MODIFICATION_INTENTS
        /\ result'.action \in SUCCESS_ACTIONS
        /\ CommandHints(CommandOf(turn')) # <<>>)
         => \E m \in OwnMatches(CommandHints(CommandOf(turn'))) :
              /\ \A k \in OwnMatches(CommandHints(CommandOf(turn'))) :
                   k.created_at <= m.created_at
              /\ ActedOn(m)]_vars

\* The meeting _handle_reschedule chooses for the command, and the date and
\* time it is to move to.
RescheduleTarget(c) ==
    find_meeting_by_participant_hints(RescheduleHints(c.details), Scheduled(Self))

\* The turn called update_event on the meeting's event and the calendar
\* patched it.
EventPatched(m) ==
    /\ CallsIn(trace', "update_event") # {}
    /\ UpdateSucceeds(Self, turn'.upd_ok, m.calendar_event_id)

\* The turn wrote the date and time on the record r of the meeting m and
\* left its identity, its people and every other record as they were.
MovedTo(m, r, when) ==
    /\ r # NoMeeting
    /\ r.date = when.date
    /\ r.time = when.time
    /\ r.id = m.id
    /\ r.thread_id = m.thread_id
    /\ r.user_email = m.user_email
    /\ r.participants = m.participants
    /\ r.participant_emails = m.participant_emails
    /\ r.status = m.status
    /\ Len(meetings') = Len(meetings)
    /\ \A i \in 1..Len(meetings) : meetings[i].id # m.id => meetings'[i] = meetings[i]
    /\ threads' = threads

\* With the calendar signed in, an event that could not be patched is
\* replaced: create_event is called, and the event it made is the record's.
Rebound(m, r) ==
    IF turn'.auth /\ ~EventPatched(m)
    THEN /\ CallsIn(trace', "create_event") # {}
         /\ turn'.cal_ok
              => /\ Len(calendar_events') = Len(calendar_events) + 1
                 /\ r.calendar_event_id = calendar_events'[Len(calendar_events')].id
                 /\ r.calendar_event_id # m.calendar_event_id
         /\ ~turn'.cal_ok => r.calendar_event_id = m.calendar_event_id
    ELSE /\ CallsIn(trace', "create_event") = {}
         /\ r.calendar_event_id = m.calendar_event_id

RescheduleEffect(m, when) ==
    /\ (when.date # NoDate /\ DateTimeParses(when.date, when.time))
         => /\ MovedTo(m, RecordOf(meetings', m.id), when)
            /\ Rebound(m, RecordOf(meetings', m.id))
    /\ when.date = NoDate
         => /\ meetings' = meetings
            /\ disk' = disk
            /\ calendar_events' = calendar_events
            /\ trace' = <<>>
            /\ result' = Result("chat", "what date and time?")

\* C32: a reschedule of a found meeting to a date that parses writes the new
\* date and time on its record and leaves the record's id, thread, owner,
\* participants and status (and every other record) as they were; with the
\* calendar signed in, an event id that is empty or simulated, or an update
\* that fails, makes the handler create an event, which becomes the
\* record's when the creation succeeds; with no date, nothing changes and
\* the reply asks for the date and time.
RescheduleWritesTheRecord ==
    [][(/\ TurnTaken
        /\ turn'.intent = "reschedule_meeting"
        /\ RescheduleTarget(CommandOf(turn')) # NoMeeting)
         => RescheduleEffect(RescheduleTarget(CommandOf(turn')),
                             RescheduleWhen(CommandOf(turn').details,
                                            CommandOf(turn').text))]_vars

\* The events the turn patched or created last for the meeting m: the
\* record's event when it was patched, the calendar's newest when one was
\* created.
EventsWritten(m) ==
    { e \in Range(calendar_events') :
        \/ EventPatched(m) /\ e.id = m.calendar_event_id
        \/ /\ CallsIn(trace', "create_event") # {}
           /\ Len(calendar_events') = Len(calendar_events) + 1
           /\ e = calendar_events'[Len(calendar_events')] }

\* C37: a reschedule that gives no duration leaves the record's
\* duration_minutes as it was, and the event it updates or creates has that
\* duration.
RescheduleKeepsDuration ==
    [][(/\ TurnTaken
        /\ turn'.intent = "reschedule_meeting"
        /\ RescheduleTarget(CommandOf(turn')) # NoMeeting
        /\ CommandOf(turn').details.duration_minutes = 0)
         => /\ RecordOf(meetings', RescheduleTarget(CommandOf(turn')).id).duration_minutes
                 = RescheduleTarget(CommandOf(turn')).duration_minutes
            /\ \A e \in EventsWritten(RescheduleTarget(CommandOf(turn'))) :
                 e.duration_minutes
                   = RescheduleTarget(CommandOf(turn')).duration_minutes]_vars

\* The meeting _handle_add_attendees chooses for the command, and the
\* emails of the contacts the command's names resolve to (new_emails).
AddTarget(c) ==
    find_meeting_by_participant_hints(AddRefNames(c.details, c.text), Scheduled(Self))

NewEmails(c) ==
    get_emails_for_contacts(
        resolve_all_participants(contacts, AddTargets(c.details, c.text)).resolved)

\* Every email the command brings is on the meeting already, whatever the
\* case it is spelled in.
BringsNoNewEmail(c, m) ==
    \A i \in 1..Len(NewEmails(c)) :
      \E j \in 1..Len(m.participant_emails) :
        EmailLower(NewEmails(c)[i]) = EmailLower(m.participant_emails[j])

\* The ledger applied an update to the record in the turn.
Applied(m) == \E k \in CallsIn(trace', "update_meeting") : trace'[k].arg = m.id

\* emails is old followed by at least one of the command's emails, and no
\* entry after old equals another entry in lower case.
Extends(old, emails, brought) ==
    /\ Len(emails) > Len(old)
    /\ SubSeq(emails, 1, Len(old)) = old
    /\ \A i \in (Len(old) + 1)..Len(emails) :
         /\ emails[i] \in Range(brought)
         /\ \A j \in 1..Len(emails) :
              i # j => EmailLower(emails[i]) # EmailLower(emails[j])

\* C33: after an add-attendees command that succeeded on a record, the
\* record's participant_emails are the previous ones in their order followed
\* by added ones, none of which equals another entry case-insensitively;
\* a command that brings no new email is not answered with success and
\* changes neither the ledger nor the calendar.
AddedEmailsFollowWithoutDuplicates ==
    [][(/\ TurnTaken
        /\ turn'.intent = "add_attendees_to_meeting"
        /\ AddTarget(CommandOf(turn')) # NoMeeting)
         => /\ (/\ result'.action = "attendees_updated"
                /\ Applied(AddTarget(CommandOf(turn'))))
                 => Extends(AddTarget(CommandOf(turn')).participant_emails,
                            RecordOf(meetings', AddTarget(CommandOf(turn')).id)
                                .participant_emails,
                            NewEmails(CommandOf(turn')))
            /\ BringsNoNewEmail(CommandOf(turn'), AddTarget(CommandOf(turn')))
                 => /\ result'.action \notin SUCCESS_ACTIONS
                    /\ meetings' = meetings
                    /\ disk' = disk
                    /\ calendar_events' = calendar_events
                    /\ CalendarCalls(trace') = {}]_vars

\* The Tech group was added to the meeting that had Sam Roy as
\* "Roy@office": Sam of Tech joined, and roy@office was not added again.
AddedBesideOtherSpelling ==
    /\ turn.intent = "add_attendees_to_meeting"
    /\ result.action = "attendees_updated"
    /\ RecordOf(meetings, <<"mtg", 6>>) # NoMeeting
    /\ RecordOf(meetings, <<"mtg", 6>>).participant_emails
         = <<"Roy@office", "sam.t@office">>

\* The invitations _handle_add_attendees sent in the turn.
AddNotifications(tr) == CallsIn(tr, "send_meeting_invite_to_participants")

\* C34: in an add-attendees turn every calendar call (attendee update or
\* event creation) comes before every ledger write, every ledger write
\* before the notification, and no notification recipient is an address
\* that was on the meeting before the command.
AddNotifiesOnlyNewAttendees ==
    [][(/\ TurnTaken
        /\ turn'.intent = "add_attendees_to_meeting"
        /\ AddTarget(CommandOf(turn')) # NoMeeting)
         => /\ \A c \in CalendarCalls(trace'), u \in CallsIn(trace', "update_meeting") :
                 c < u
            /\ \A n \in AddNotifications(trace') :
                 /\ CalendarCalls(trace') # {}
                 /\ \A u \in CallsIn(trace', "update_meeting") : u < n
                 /\ \A i \in 1..Len(trace'[n].arg) :
                    \A j \in 1..Len(AddTarget(CommandOf(turn')).participant_emails) :
                      EmailLower(trace'[n].arg[i])
                        # EmailLower(AddTarget(CommandOf(turn')).participant_emails[j])]_vars

\* The emails the directory has for a participant name.
EmailsOfName(name) ==
    { contacts[i].email : i \in { j \in 1..Len(contacts) :
                                    contacts[j].name = name /\ contacts[j].email # "" } }

\* An attendee list after the removal from the meeting m that left the
\* participants kept: no email of a removed participant, and every email
\* the meeting had for a kept participant.
EmailsOfKeptOnly(m, kept, emails) ==
    /\ \A i \in 1..Len(m.participants) :
         m.participants[i] \notin Range(kept)
           => EmailsOfName(m.participants[i]) \cap Range(emails) = {}
    /\ \A i \in 1..Len(kept) :
         EmailsOfName(kept[i]) \cap Range(m.participant_emails) \subseteq Range(emails)

\* C38: after a remove-attendees command that succeeded on a record, the
\* record's participant_emails and the attendee list sent to the calendar
\* hold no email of a removed participant and every email the meeting had
\* for a kept participant, also when the record has fewer emails than
\* participants.
RemovalDropsTheRemovedEmails ==
    [][(/\ TurnTaken
        /\ turn'.intent = "remove_attendees_from_meeting"
        /\ RemovalTarget(CommandOf(turn')) # NoMeeting
        /\ result'.action = "attendees_updated"
        /\ Applied(RemovalTarget(CommandOf(turn'))))
         => /\ EmailsOfKeptOnly(
                   RemovalTarget(CommandOf(turn')),
                   RecordOf(meetings', RemovalTarget(CommandOf(turn')).id).participants,
                   RecordOf(meetings', RemovalTarget(CommandOf(turn')).id)
                       .participant_emails)
            /\ \A k \in CallsIn(trace', "update_event_attendees") :
                 EmailsOfKeptOnly(
                     RemovalTarget(CommandOf(turn')),
                     RecordOf(meetings', RemovalTarget(CommandOf(turn')).id).participants,
                     trace'[k].arg)]_vars

\* The meeting the command's handler chooses.
CommandTarget(c) ==
    find_meeting_by_participant_hints(CommandHints(c), Scheduled(Self))

\* C39: a reschedule, add-attendees or remove-attendees turn answers
\* "rescheduled" or "attendees_updated" only if the ledger applied an update
\* in it; when its target is a record the requester may not modify, no
\* success is reported and the calendar is neither called nor changed.
SuccessOnlyIfLedgerApplied ==
    [][(TurnTaken /\ turn'.intent \in MODIFICATION_INTENTS)
         => /\ result'.action \in SUCCESS_ACTIONS
                 => CallsIn(trace', "update_meeting") # {}
            /\ (/\ CommandTarget(CommandOf(turn')) # NoMeeting
                /\ ~Authorised(CommandTarget(CommandOf(turn')).id))
                 => /\ result'.action \notin SUCCESS_ACTIONS
                    /\ CalendarCalls(trace') = {}
                    /\ calendar_events' = calendar_events]_vars

NoSlotReply(reply, slot) ==
    /\ state = COLLECTING_INFO
    /\ result = Result("awaiting_input", "no slot")
    /\ Turn([NoInput EXCEPT !.text = reply.text, !.slot = slot,
                            !.parsed.meeting_details = reply.details],
            [NoTurn EXCEPT !.op = "info_collection"])

\* The reply gives a time, or a date that is not the draft's.
AnswersNoSlot(reply) ==
    \/ reply.details.time # NoTime
    \/ /\ reply.details.date # NoDate
       /\ reply.details.date # DraftValue(pending_meeting, "date")

\* C36: after the first available slot was asked for and none was found on
\* the draft's date, a reply that gives a time leads to the confirmation
\* with that time, a reply that gives another date replaces the draft's
\* date, and neither is answered with the same prompt for the same draft.
NoSlotReplyIsTaken ==
    [][\A reply \in Replies, slot \in Slots :
         NoSlotReply(reply, slot)
           => /\ reply.details.time # NoTime
                   => /\ state' = AWAITING_CONFIRMATION
                      /\ DraftValue(pending_meeting', "time") = reply.details.time
              /\ (/\ reply.details.date # NoDate
                  /\ reply.details.date # DraftValue(pending_meeting, "date"))
                   => DraftValue(pending_meeting', "date") = reply.details.date
              /\ AnswersNoSlot(reply)
                   => ~(/\ state' = COLLECTING_INFO
                        /\ result' = result
                        /\ DraftValue(pending_meeting', "date")
                             = DraftValue(pending_meeting, "date")
                        /\ DraftValue(pending_meeting', "time") = NoTime)]_vars

\* C40: when the save of add_meeting, update_meeting or delete_meeting
\* fails, the records and the thread index in memory are what they were
\* before the call, so that no later query of the session sees a record or
\* a change that is not in the file.
FailedSaveLeavesLedger ==
    [][(/\ store_call'.n = store_call.n + 1
        /\ store_call'.fn \in {"add_meeting", "update_meeting", "delete_meeting"}
        /\ store_call'.raised)
         => /\ meetings' = meetings
            /\ threads' = threads
            /\ meetings' = disk'.meetings
            /\ threads' = disk'.threads]_vars

=============================================================================
